---- MODULE Spec2Model ----
(***************************************************************************)
(* Certification path building: net/cert/pki/path_builder.cc.              *)
(*                                                                         *)
(* The model follows the three classes of the file:                        *)
(*   CertIssuersIter     the candidate issuers of one certificate          *)
(*   CertIssuerIterPath  the stack of iterators being explored             *)
(*   CertPathIter        GetNextPath, one loop iteration per action        *)
(*   CertPathBuilder     Run and AddResultPath                             *)
(* The trust store, the issuer sources, the chain validator, the delegate  *)
(* and the clock are the environment.                                      *)
(***************************************************************************)
EXTENDS Integers, Sequences, FiniteSets, TLC

VARIABLES
    world,                  \* which issuer-source fixture the sources serve
    target,                 \* the certificate the path is built for
    trust,                  \* the trust store: certificate -> trust type
    has_deadline,           \* !deadline_.is_null()
    deadline_passed,        \* base::TimeTicks::Now() > deadline_ was true
    max_iteration_count,    \* max_iteration_count_, 0 = unlimited
    max_path_building_depth,\* max_path_building_depth_, 0 = unlimited
    explore_all_paths,      \* explore_all_paths_
    next_issuer,            \* CertPathIter::next_issuer_
    cur_path,               \* CertIssuerIterPath::cur_path_
    present_certs,          \* CertIssuerIterPath::present_certs_
    iteration_count,        \* the counter Run hands to GetNextPath
    pc,                     \* position of the single thread of control
    out_certs,              \* result_path->certs of the call in progress
    out_last_cert_trust,    \* result_path->last_cert_trust
    out_errors,             \* result_path->errors
    ret,                    \* what the last GetNextPath returned
    out_result,             \* CertPathBuilder::out_result_
    hist                    \* counters of what happened so far

env_vars == <<world, target, trust, has_deadline, max_iteration_count,
              max_path_building_depth, explore_all_paths>>
iter_vars == <<next_issuer, cur_path, present_certs, iteration_count>>
call_vars == <<out_certs, out_last_cert_trust, out_errors, ret>>
vars == <<world, target, trust, has_deadline, deadline_passed,
          max_iteration_count, max_path_building_depth, explore_all_paths,
          next_issuer, cur_path, present_certs, iteration_count, pc,
          out_certs, out_last_cert_trust, out_errors, ret, out_result, hist>>

(***************************************************************************)
(* Bounds of the configurations that are explored.                         *)
(***************************************************************************)
MaxIterationLimit == 2
MaxDepthLimit == 2
MaxKnownTrust == 2
\* How often a caller calls again after GetNextPath has returned false or
\* GetNextIssuer the empty entry.
MaxCallsAfterFalse == 2

(***************************************************************************)
(* Certificates.  A certificate is named by its DER encoding; the fields   *)
(* the path builder reads are looked up in CertTable.  A2 is a second      *)
(* encoding of A: same subject, subjectAltName and SPKI, different DER.    *)
(***************************************************************************)
Certs == {"T", "A", "A2", "B", "R"}

NullCert == "null"

CertTable ==
    [c \in Certs |->
       CASE c = "T"  -> [subject |-> "T", issuer |-> "A", san |-> "t.test",
                         spki |-> "kT", not_before |-> 1, not_after |-> 4,
                         aki |-> "kA", ski |-> "kT"]
         [] c = "A"  -> [subject |-> "A", issuer |-> "B", san |-> "",
                         spki |-> "kA", not_before |-> 1, not_after |-> 4,
                         aki |-> "kB", ski |-> "kA"]
         [] c = "A2" -> [subject |-> "A", issuer |-> "A", san |-> "",
                         spki |-> "kA", not_before |-> 2, not_after |-> 5,
                         aki |-> "absent", ski |-> "kA"]
         [] c = "B"  -> [subject |-> "B", issuer |-> "R", san |-> "",
                         spki |-> "kB", not_before |-> 1, not_after |-> 5,
                         aki |-> "no_key_id", ski |-> "kX"]
         [] c = "R"  -> [subject |-> "R", issuer |-> "R", san |-> "",
                         spki |-> "kR", not_before |-> 1, not_after |-> 4,
                         aki |-> "absent", ski |-> "absent"]]

der_cert(c) == c
normalized_subject(c) == CertTable[c].subject
normalized_issuer(c) == CertTable[c].issuer
subject_alt_names_extension(c) == CertTable[c].san
spki_tlv(c) == CertTable[c].spki
validity_not_before(c) == CertTable[c].not_before
validity_not_after(c) == CertTable[c].not_after
\* "absent": no extension; "no_key_id": extension without keyIdentifier.
authority_key_identifier(c) == CertTable[c].aki
subject_key_identifier(c) == CertTable[c].ski

(***************************************************************************)
(* Trust.                                                                  *)
(***************************************************************************)
TrustedAnchorTypes == {"TRUSTED_ANCHOR", "TRUSTED_ANCHOR_WITH_EXPIRATION",
                       "TRUSTED_ANCHOR_WITH_CONSTRAINTS"}
TrustTypes == TrustedAnchorTypes \cup {"UNSPECIFIED", "DISTRUSTED"}

HasUnspecifiedTrust(t) == t = "UNSPECIFIED"

\* TrustStore::GetTrust, asked again for every discovered issuer.
GetTrust(c) == trust[c]

(***************************************************************************)
(* Priority of a candidate issuer.                                         *)
(***************************************************************************)
kMatch == 0
kNoData == 1
kMismatch == 2

CalculateKeyIdentifierMatch(tgt, issuer) ==
    IF authority_key_identifier(tgt) = "absent"
    THEN kNoData
    ELSE IF /\ authority_key_identifier(tgt) # "no_key_id"
            /\ subject_key_identifier(issuer) # "absent"
         THEN IF authority_key_identifier(tgt) # subject_key_identifier(issuer)
              THEN kMismatch
              ELSE kMatch
         ELSE kNoData

kTrustedAndKeyIdMatch == 0
kTrustedAndKeyIdNoData == 1
kKeyIdMatch == 2
kKeyIdNoData == 3
kTrustedAndKeyIdMismatch == 4
kKeyIdMismatch == 5
kDistrustedAndKeyIdMatch == 6
kDistrustedAndKeyIdNoData == 7
kDistrustedAndKeyIdMismatch == 8

\* Variant: the trust decides first, the key identifier match second.
TrustAndKeyIdentifierMatchToOrder_TrustFirst(tgt, issuer, issuer_trust) ==
    (IF issuer_trust \in TrustedAnchorTypes THEN 0
     ELSE IF issuer_trust = "UNSPECIFIED" THEN 3 ELSE 6)
    + CalculateKeyIdentifierMatch(tgt, issuer)

TrustAndKeyIdentifierMatchToOrder(tgt, issuer, issuer_trust) ==
    LET key_id_match == CalculateKeyIdentifierMatch(tgt, issuer) IN
    IF issuer_trust \in TrustedAnchorTypes
    THEN CASE key_id_match = kMatch    -> kTrustedAndKeyIdMatch
           [] key_id_match = kNoData   -> kTrustedAndKeyIdNoData
           [] key_id_match = kMismatch -> kTrustedAndKeyIdMismatch
    ELSE IF issuer_trust = "UNSPECIFIED"
    THEN CASE key_id_match = kMatch    -> kKeyIdMatch
           [] key_id_match = kNoData   -> kKeyIdNoData
           [] key_id_match = kMismatch -> kKeyIdMismatch
    ELSE CASE key_id_match = kMatch    -> kDistrustedAndKeyIdMatch
           [] key_id_match = kNoData   -> kDistrustedAndKeyIdNoData
           [] key_id_match = kMismatch -> kDistrustedAndKeyIdMismatch

(***************************************************************************)
(* Issuer sources.  Source 1 is the trust store (the constructor of        *)
(* CertPathBuilder registers it first); it answers synchronously only.     *)
(* Source 2 answers synchronously and through an asynchronous request      *)
(* that yields batches until it yields an empty list.                      *)
(***************************************************************************)
Sources == <<"trust_store", "extra">>

\* What AsyncGetIssuersOf does: no request, or a request that will yield
\* the given non-empty batches and then an empty list.
NoRequest == [made |-> FALSE, batches |-> <<>>]
Request(batches) == [made |-> TRUE, batches |-> batches]

None == [c \in Certs |-> <<>>]
NoAsync == [c \in Certs |-> NoRequest]

\* Each world lists, per source and certificate, what the source returns.
Worlds ==
    << \* 1: a chain T <- A <- B <- R, the root known to the trust store
       [sync  |-> <<("B" :> <<"R">>) @@ ("R" :> <<"R">>) @@ None,
                    ("T" :> <<"A">>) @@ ("A" :> <<"B">>) @@ None>>,
        async |-> <<NoAsync, NoAsync>>],
       \* 2: A and B issue each other; B is also offered the re-encoding A2
       [sync  |-> <<None,
                    ("T" :> <<"A">>) @@ ("A" :> <<"B">>) @@
                    ("B" :> <<"A", "A2">>) @@ ("A2" :> <<"T">>) @@ None>>,
        async |-> <<NoAsync, NoAsync>>],
       \* 3: issuers that arrive asynchronously, in two batches
       [sync  |-> <<("A" :> <<"R">>) @@ ("A2" :> <<"R">>) @@ None,
                    ("T" :> <<"A">>) @@ None>>,
        async |-> <<NoAsync,
                    ("T" :> Request(<< <<"A2">>, <<"B", "A">> >>)) @@
                    ("B" :> Request(<< <<"R">> >>)) @@
                    ("R" :> Request(<<>>)) @@ NoAsync>>],
       \* 4: both sources offer the same certificates
       [sync  |-> <<("T" :> <<"R", "A">>) @@ ("B" :> <<"R", "A">>) @@ None,
                    ("T" :> <<"A", "B">>) @@ ("A" :> <<"R">>) @@
                    ("R" :> <<"R">>) @@ None>>,
        async |-> <<NoAsync, NoAsync>>],
       \* 5: A and B issue each other, and nothing else is known
       [sync  |-> <<None, ("A" :> <<"B">>) @@ ("B" :> <<"A">>) @@ None>>,
        async |-> <<NoAsync, NoAsync>>],
       \* 6: R is offered every certificate as its issuer; R has no authority
       \* key identifier, so only the trust tells the priority keys apart
       [sync  |-> <<("R" :> <<"T">>) @@ None,
                    ("R" :> <<"A", "B", "R", "A2">>) @@ None>>,
        async |-> <<NoAsync, NoAsync>>],
       \* 7: both sources answer T twice, synchronously and through a
       \* request, and repeat each other
       [sync  |-> <<("T" :> <<"A">>) @@ None,
                    ("T" :> <<"A", "A2">>) @@ None>>,
        async |-> <<("T" :> Request(<< <<"A">>, <<"B">> >>)) @@ NoAsync,
                    ("T" :> Request(<< <<"B", "R">> >>)) @@ NoAsync>>] >>

\* The worlds paths are built in; the others are for a single iterator.
SearchWorlds == {w \in 1..Len(Worlds) : w <= Len(Worlds) - 2}

SyncGetIssuersOf(s, c) == Worlds[world].sync[s][c]

AsyncGetIssuersOf(s, c) == Worlds[world].async[s][c]

\* CertIssuerSource::Request::GetNext: the next batch, empty when exhausted.
RequestGetNext(req) ==
    LET batches == AsyncGetIssuersOf(req.source, req.cert).batches IN
    IF req.pos < Len(batches) THEN batches[req.pos + 1] ELSE <<>>

(***************************************************************************)
(* CertIssuersIter.                                                        *)
(***************************************************************************)
\* IssuerEntry(): a null cert marks the empty entry.
EmptyIssuerEntry ==
    [cert |-> NullCert, trust |-> "UNSPECIFIED",
     trust_and_key_id_match_ordering |-> 0]

\* A call the iterator makes on a source or on the trust store.
Called(op, arg) == [op |-> op, arg |-> arg]

\* The field log is not in the code: it lists the calls the iterator has
\* made on its sources and on the trust store during the current call of
\* GetNextIssuer, and is empty between calls.
NewCertIssuersIter(c) ==
    [cert |-> c,
     log |-> <<>>,
     issuers |-> <<>>,
     cur_issuer |-> 0,
     skipped_issuer_count |-> 0,
     issuers_needs_sort |-> FALSE,
     present_issuers |-> {},
     did_initial_query |-> FALSE,
     did_async_issuer_query |-> FALSE,
     cur_async_request |-> 0,
     pending_async_requests |-> <<>>]

HasCurrentIssuer(it) == it.cur_issuer < Len(it.issuers)

\* Variant: any discovered issuer counts, skipped or not.
had_non_skipped_issuers_AnyFound(it) == Len(it.issuers) > 0

had_non_skipped_issuers(it) == Len(it.issuers) > it.skipped_issuer_count

\* Variant: a skipped issuer is not counted.
increment_skipped_issuer_count_Forgotten(it) == it

increment_skipped_issuer_count(it) ==
    [it EXCEPT !.skipped_issuer_count = @ + 1]

RECURSIVE AddIssuers(_, _)
\* Variant: a candidate is added whether or not its bytes were seen.
AddIssuers_NoDedup(it, new_issuers) ==
    IF new_issuers = <<>>
    THEN it
    ELSE LET issuer == Head(new_issuers)
             entry ==
                    [cert |-> issuer,
                     trust |-> GetTrust(issuer),
                     trust_and_key_id_match_ordering |->
                        TrustAndKeyIdentifierMatchToOrder(
                            it.cert, issuer, GetTrust(issuer))]
         IN  AddIssuers(
               [it EXCEPT !.present_issuers = @ \cup {der_cert(issuer)},
                          !.issuers = Append(@, entry),
                          !.issuers_needs_sort = TRUE,
                          !.log = Append(@, Called("GetTrust", issuer))],
               Tail(new_issuers))

AddIssuers(it, new_issuers) ==
    IF new_issuers = <<>>
    THEN it
    ELSE LET issuer == Head(new_issuers) IN
         IF der_cert(issuer) \in it.present_issuers
         THEN AddIssuers(it, Tail(new_issuers))
         ELSE LET entry ==
                    [cert |-> issuer,
                     trust |-> GetTrust(issuer),
                     trust_and_key_id_match_ordering |->
                        TrustAndKeyIdentifierMatchToOrder(
                            it.cert, issuer, GetTrust(issuer))]
              IN  AddIssuers(
                    [it EXCEPT !.present_issuers = @ \cup {der_cert(issuer)},
                               !.issuers = Append(@, entry),
                               !.issuers_needs_sort = TRUE,
                               !.log = Append(@, Called("GetTrust", issuer))],
                    Tail(new_issuers))

RECURSIVE SyncQueries(_, _)
SyncQueries(it, s) ==
    IF s > Len(Sources)
    THEN it
    ELSE SyncQueries(
           AddIssuers(
             [it EXCEPT !.log = Append(@, Called("SyncGetIssuersOf", s))],
             SyncGetIssuersOf(s, it.cert)),
           s + 1)

RECURSIVE AsyncRequests(_, _)
AsyncRequests(c, s) ==
    IF s > Len(Sources)
    THEN <<>>
    ELSE IF ~AsyncGetIssuersOf(s, c).made
         THEN AsyncRequests(c, s + 1)
         ELSE <<[source |-> s, cert |-> c, pos |-> 0, live |-> TRUE]>>
              \o AsyncRequests(c, s + 1)

\* Variant: the iterator does not remember that it made the queries.
DoAsyncIssuerQuery_Forgotten(it) ==
    [it EXCEPT !.cur_async_request = 0,
               !.pending_async_requests = AsyncRequests(it.cert, 1),
               !.log = @ \o [s \in 1..Len(Sources) |->
                                Called("AsyncGetIssuersOf", s)]]

DoAsyncIssuerQuery(it) ==
    [it EXCEPT !.did_async_issuer_query = TRUE,
               !.cur_async_request = 0,
               !.pending_async_requests = @ \o AsyncRequests(it.cert, 1),
               !.log = @ \o [s \in 1..Len(Sources) |->
                                Called("AsyncGetIssuersOf", s)]]

\* The comparison handed to std::stable_sort: two std::tie tuples compared
\* lexicographically, with false < true.
BoolLess(a, b) == ~a /\ b

\* Variant: a candidate that is not self-issued comes first.
IssuerLess_NotSelfIssuedFirst(issuer1, issuer2) ==
    LET issuer1_self_issued ==
            normalized_subject(issuer1.cert) = normalized_issuer(issuer1.cert)
        issuer2_self_issued ==
            normalized_subject(issuer2.cert) = normalized_issuer(issuer2.cert)
        o1 == issuer1.trust_and_key_id_match_ordering
        o2 == issuer2.trust_and_key_id_match_ordering
        nb1 == validity_not_before(issuer1.cert)
        nb2 == validity_not_before(issuer2.cert)
        na1 == validity_not_after(issuer1.cert)
        na2 == validity_not_after(issuer2.cert)
    IN  \/ o1 < o2
        \/ /\ o1 = o2
           /\ \/ BoolLess(issuer1_self_issued, issuer2_self_issued)
              \/ /\ issuer2_self_issued = issuer1_self_issued
                 /\ \/ nb2 < nb1
                    \/ /\ nb2 = nb1
                       /\ na2 < na1

IssuerLess(issuer1, issuer2) ==
    LET issuer1_self_issued ==
            normalized_subject(issuer1.cert) = normalized_issuer(issuer1.cert)
        issuer2_self_issued ==
            normalized_subject(issuer2.cert) = normalized_issuer(issuer2.cert)
        o1 == issuer1.trust_and_key_id_match_ordering
        o2 == issuer2.trust_and_key_id_match_ordering
        nb1 == validity_not_before(issuer1.cert)
        nb2 == validity_not_before(issuer2.cert)
        na1 == validity_not_after(issuer1.cert)
        na2 == validity_not_after(issuer2.cert)
    IN  \/ o1 < o2
        \/ /\ o1 = o2
           /\ \/ BoolLess(issuer2_self_issued, issuer1_self_issued)
              \/ /\ issuer2_self_issued = issuer1_self_issued
                 /\ \/ nb2 < nb1
                    \/ /\ nb2 = nb1
                       /\ na2 < na1

\* Stable insertion of e into the sorted sequence s: after every element
\* that is not greater than e.
RECURSIVE InsertSorted(_, _)
\* Variant: e goes before the elements it is equal to.
InsertSorted_Unstable(s, e) ==
    IF s = <<>>
    THEN <<e>>
    ELSE IF ~IssuerLess(Head(s), e)
         THEN <<e>> \o s
         ELSE <<Head(s)>> \o InsertSorted(Tail(s), e)

InsertSorted(s, e) ==
    IF s = <<>>
    THEN <<e>>
    ELSE IF IssuerLess(e, Head(s))
         THEN <<e>> \o s
         ELSE <<Head(s)>> \o InsertSorted(Tail(s), e)

RECURSIVE StableSort(_)
StableSort(s) ==
    IF s = <<>>
    THEN <<>>
    ELSE InsertSorted(StableSort(SubSeq(s, 1, Len(s) - 1)), s[Len(s)])

\* Variant: the issuers already returned are sorted as well.
SortRemainingIssuers_All(it) ==
    IF ~it.issuers_needs_sort
    THEN it
    ELSE [it EXCEPT !.issuers = StableSort(@),
                    !.issuers_needs_sort = FALSE]

\* Variant: the remaining issuers are left in the order they arrived.
SortRemainingIssuers_Never(it) == [it EXCEPT !.issuers_needs_sort = FALSE]

SortRemainingIssuers(it) ==
    IF ~it.issuers_needs_sort
    THEN it
    ELSE [it EXCEPT
            !.issuers = SubSeq(@, 1, it.cur_issuer)
                        \o StableSort(SubSeq(@, it.cur_issuer + 1, Len(@))),
            !.issuers_needs_sort = FALSE]

\* The while loop that blocks on the asynchronous requests in FIFO order.
RECURSIVE DrainAsync(_)
\* Variant: the loop goes on until every request is exhausted.
DrainAsync_All(it) ==
    IF ~(it.cur_async_request < Len(it.pending_async_requests))
    THEN it
    ELSE LET k == it.cur_async_request + 1
             req == it.pending_async_requests[k]
             new_issuers == RequestGetNext(req)
         IN  IF new_issuers = <<>>
             THEN DrainAsync(
                    [it EXCEPT !.pending_async_requests[k].live = FALSE,
                               !.cur_async_request = @ + 1,
                               !.log = Append(@, Called("GetNext",
                                            [source |-> req.source,
                                             answer |-> new_issuers]))])
             ELSE DrainAsync(
                    AddIssuers(
                      [it EXCEPT !.pending_async_requests[k].pos = @ + 1,
                                 !.log = Append(@, Called("GetNext",
                                              [source |-> req.source,
                                               answer |-> new_issuers]))],
                      new_issuers))

DrainAsync(it) ==
    IF HasCurrentIssuer(it)
       \/ ~(it.cur_async_request < Len(it.pending_async_requests))
    THEN it
    ELSE LET k == it.cur_async_request + 1
             req == it.pending_async_requests[k]
             new_issuers == RequestGetNext(req)
         IN  IF new_issuers = <<>>
             THEN DrainAsync(
                    [it EXCEPT !.pending_async_requests[k].live = FALSE,
                               !.cur_async_request = @ + 1,
                               !.log = Append(@, Called("GetNext",
                                            [source |-> req.source,
                                             answer |-> new_issuers]))])
             ELSE DrainAsync(
                    AddIssuers(
                      [it EXCEPT !.pending_async_requests[k].pos = @ + 1,
                                 !.log = Append(@, Called("GetNext",
                                              [source |-> req.source,
                                               answer |-> new_issuers]))],
                      new_issuers))

\* Variant: the asynchronous queries are issued right after the
\* synchronous ones, whether or not a candidate is at hand.
GetNextIssuer_EagerAsync(it) ==
    LET it1 == IF ~it.did_initial_query
               THEN SyncQueries([it EXCEPT !.did_initial_query = TRUE], 1)
               ELSE it
        it2 == DrainAsync(IF ~it1.did_async_issuer_query
                          THEN DoAsyncIssuerQuery(it1)
                          ELSE it1)
    IN  IF HasCurrentIssuer(it2)
        THEN LET it3 == SortRemainingIssuers(it2) IN
             [iter |-> [it3 EXCEPT !.cur_issuer = @ + 1, !.log = <<>>],
              out  |-> it3.issuers[it3.cur_issuer + 1],
              log  |-> it3.log]
        ELSE [iter |-> [it2 EXCEPT !.log = <<>>],
              out  |-> EmptyIssuerEntry,
              log  |-> it2.log]

\* GetNextIssuer: the iterator afterwards, the entry written to *out, and
\* the calls made on the sources and the trust store meanwhile.
GetNextIssuer(it) ==
    LET it1 == IF ~it.did_initial_query
               THEN SyncQueries([it EXCEPT !.did_initial_query = TRUE], 1)
               ELSE it
        it2 == IF ~HasCurrentIssuer(it1)
               THEN DrainAsync(IF ~it1.did_async_issuer_query
                               THEN DoAsyncIssuerQuery(it1)
                               ELSE it1)
               ELSE it1
    IN  IF HasCurrentIssuer(it2)
        THEN LET it3 == SortRemainingIssuers(it2) IN
             [iter |-> [it3 EXCEPT !.cur_issuer = @ + 1, !.log = <<>>],
              out  |-> it3.issuers[it3.cur_issuer + 1],
              log  |-> it3.log]
        ELSE [iter |-> [it2 EXCEPT !.log = <<>>],
              out  |-> EmptyIssuerEntry,
              log  |-> it2.log]

(***************************************************************************)
(* CertIssuerIterPath: the stack and the set of identities on it.          *)
(***************************************************************************)
\* Variant: the key is the DER encoding of the certificate.
GetKey_ByDer(c) == <<der_cert(c)>>

GetKey(c) ==
    <<normalized_subject(c), subject_alt_names_extension(c), spki_tlv(c)>>

\* Variant: the lookup in present_certs_ never finds the certificate.
IsPresent_Never(p, c) == FALSE

\* Variant: the lookup in present_certs_ always finds the certificate.
IsPresent_Always(p, c) == TRUE

IsPresent(p, c) == GetKey(c) \in p.present_certs

PathEmpty(p) == p.cur_path = <<>>

PathLength(p) == Len(p.cur_path)

PathBack(p) == p.cur_path[Len(p.cur_path)]

\* DCHECK(added) in Append.
AppendAllowed(p, c) == GetKey(c) \notin p.present_certs

PathAppend(p, it) ==
    [cur_path |-> Append(p.cur_path, it),
     present_certs |-> p.present_certs \cup {GetKey(it.cert)}]

\* back() of a non-empty vector and DCHECK_EQ(num_erased, 1U) in Pop.
PopAllowed(p) ==
    /\ ~PathEmpty(p)
    /\ GetKey(PathBack(p).cert) \in p.present_certs

\* Variant: the identity of the popped certificate stays in present_certs_.
PathPop_KeepsKey(p) ==
    IF PathEmpty(p)
    THEN p
    ELSE [cur_path |-> SubSeq(p.cur_path, 1, Len(p.cur_path) - 1),
          present_certs |-> p.present_certs]

PathPop(p) ==
    IF PathEmpty(p)
    THEN p
    ELSE [cur_path |-> SubSeq(p.cur_path, 1, Len(p.cur_path) - 1),
          present_certs |-> p.present_certs \ {GetKey(PathBack(p).cert)}]

\* Variant: the certificates are copied top of the stack first.
CopyPath_TopFirst(p) ==
    [i \in 1..Len(p.cur_path) |-> p.cur_path[Len(p.cur_path) + 1 - i].cert]

CopyPath(p) == [i \in 1..Len(p.cur_path) |-> p.cur_path[i].cert]

\* The path object of the CertPathIter in the current state.
Path == [cur_path |-> cur_path, present_certs |-> present_certs]

(***************************************************************************)
(* Errors.  An error is an id attached to a certificate of the path        *)
(* (at = its 1-based position) or to the path as a whole (at = 0).         *)
(***************************************************************************)
OtherError(id) == [id |-> id, at |-> 0]
CertError(id, k) == [id |-> id, at |-> k]

\* What the chain validator may add to a path it verifies: nothing of
\* high severity (a warning stands for that case) or a high-severity error.
ValidatorOutcomes ==
    {{OtherError("kVerifyWarning")}, {OtherError("kVerifyError")}}
\* What the delegate may add in CheckPathAfterVerification.
DelegateOutcomes == {{}, {OtherError("kDelegateError")}}

\* AddError records severity high, AddWarning severity warning.
IsHighSeverity(e) == e.id # "kVerifyWarning"

ContainsHighSeverityErrors(errors) == \E e \in errors : IsHighSeverity(e)

\* Variant: any error counts as the one asked for.
ContainsError_Any(errors, id) == errors # {}

ContainsError(errors, id) == \E e \in errors : e.id = id

(***************************************************************************)
(* CertPathBuilderResultPath and CertPathBuilder::Result.                  *)
(***************************************************************************)
\* Variant: the errors are not kept.
ResultPath_NoErrors(certs, last_cert_trust, errors) ==
    [certs |-> certs, last_cert_trust |-> last_cert_trust, errors |-> {}]

ResultPath(certs, last_cert_trust, errors) ==
    [certs |-> certs, last_cert_trust |-> last_cert_trust, errors |-> errors]

NullPath == [null |-> TRUE]

\* Variant: the switch returns the last certificate for DISTRUSTED too.
GetTrustedCert_IgnoresDistrust(rp) ==
    IF rp.certs = <<>>
    THEN NullCert
    ELSE IF rp.last_cert_trust \in TrustedAnchorTypes \cup {"DISTRUSTED"}
         THEN rp.certs[Len(rp.certs)]
         ELSE NullCert

GetTrustedCert(rp) ==
    IF rp.certs = <<>>
    THEN NullCert
    ELSE IF rp.last_cert_trust \in TrustedAnchorTypes
         THEN rp.certs[Len(rp.certs)]
         ELSE NullCert

IsValid(rp) ==
    GetTrustedCert(rp) # NullCert /\ ~ContainsHighSeverityErrors(rp.errors)

NewResult ==
    [paths |-> <<>>, best_result_index |-> 0, max_depth_seen |-> 0,
     exceeded_iteration_limit |-> FALSE, exceeded_deadline |-> FALSE,
     iteration_count |-> 0]

GetBestPathPossiblyInvalid(res) ==
    IF res.best_result_index >= Len(res.paths)
    THEN NullPath
    ELSE res.paths[res.best_result_index + 1]

GetBestValidPath(res) ==
    LET result_path == GetBestPathPossiblyInvalid(res) IN
    IF result_path # NullPath /\ IsValid(result_path)
    THEN result_path
    ELSE NullPath

HasValidPath(res) == GetBestValidPath(res) # NullPath

AnyPathContainsError(res, id) ==
    \E i \in 1..Len(res.paths) : ContainsError(res.paths[i].errors, id)

\* Variant: the new path is put in front of the recorded ones.
AddResultPath_InFront(res, result_path) ==
    LET old_best_path == GetBestPathPossiblyInvalid(res)
        better ==
            \/ IsValid(result_path)
            \/ /\ ~HasUnspecifiedTrust(result_path.last_cert_trust)
               /\ old_best_path # NullPath
               /\ HasUnspecifiedTrust(old_best_path.last_cert_trust)
        res1 == IF ~HasValidPath(res) /\ better
                THEN [res EXCEPT !.best_result_index = Len(res.paths)]
                ELSE res
        res2 == IF Len(result_path.certs) > res1.max_depth_seen
                THEN [res1 EXCEPT !.max_depth_seen = Len(result_path.certs)]
                ELSE res1
    IN  [res2 EXCEPT !.paths = <<result_path>> \o @]

\* Variant: only a valid path replaces the best path.
AddResultPath_ValidOnly(res, result_path) ==
    LET res1 == IF ~HasValidPath(res) /\ IsValid(result_path)
                THEN [res EXCEPT !.best_result_index = Len(res.paths)]
                ELSE res
        res2 == IF Len(result_path.certs) > res1.max_depth_seen
                THEN [res1 EXCEPT !.max_depth_seen = Len(result_path.certs)]
                ELSE res1
    IN  [res2 EXCEPT !.paths = Append(@, result_path)]

\* Variant: the best path is reconsidered even when a valid one is known.
AddResultPath_NoGuard(res, result_path) ==
    LET old_best_path == GetBestPathPossiblyInvalid(res)
        better ==
            \/ IsValid(result_path)
            \/ /\ ~HasUnspecifiedTrust(result_path.last_cert_trust)
               /\ old_best_path # NullPath
               /\ HasUnspecifiedTrust(old_best_path.last_cert_trust)
        res1 == IF better
                THEN [res EXCEPT !.best_result_index = Len(res.paths)]
                ELSE res
        res2 == IF Len(result_path.certs) > res1.max_depth_seen
                THEN [res1 EXCEPT !.max_depth_seen = Len(result_path.certs)]
                ELSE res1
    IN  [res2 EXCEPT !.paths = Append(@, result_path)]

AddResultPath(res, result_path) ==
    LET old_best_path == GetBestPathPossiblyInvalid(res)
        better ==
            \/ IsValid(result_path)
            \/ /\ ~HasUnspecifiedTrust(result_path.last_cert_trust)
               /\ old_best_path # NullPath
               /\ HasUnspecifiedTrust(old_best_path.last_cert_trust)
        res1 == IF ~HasValidPath(res) /\ better
                THEN [res EXCEPT !.best_result_index = Len(res.paths)]
                ELSE res
        res2 == IF Len(result_path.certs) > res1.max_depth_seen
                THEN [res1 EXCEPT !.max_depth_seen = Len(result_path.certs)]
                ELSE res1
    IN  [res2 EXCEPT !.paths = Append(@, result_path)]

(***************************************************************************)
(* The initial state: the builder as constructed and configured, before    *)
(* Run.  The inputs are drawn from bounded sets.                           *)
(***************************************************************************)
\* The anchor variant the trust store gives a certificate it trusts.
AnchorTypeOf(c) ==
    CASE c \in {"T", "R"} -> "TRUSTED_ANCHOR"
      [] c \in {"A", "A2"} -> "TRUSTED_ANCHOR_WITH_EXPIRATION"
      [] OTHER -> "TRUSTED_ANCHOR_WITH_CONSTRAINTS"

RECURSIVE Flatten(_)
Flatten(ss) == IF ss = <<>> THEN <<>> ELSE Head(ss) \o Flatten(Tail(ss))

Range(s) == {s[i] : i \in 1..Len(s)}

\* The certificates the sources of world w can ever hand out.
Served(w) ==
    UNION {Range(Worlds[w].sync[s][c])
             \cup Range(Flatten(Worlds[w].async[s][c].batches)) :
           s \in 1..Len(Sources), c \in Certs}

\* The trust stores explored: at most MaxKnownTrust certificates are
\* anchors or distrusted, every other one is unspecified; a certificate
\* the build can never meet is left unspecified.
TrustAssignments(w, tgt) ==
    LET met == Served(w) \cup {tgt}
        known == {k \in SUBSET met : Cardinality(k) <= MaxKnownTrust}
    IN  UNION {{[c \in Certs |->
                   IF c \in d THEN "DISTRUSTED"
                   ELSE IF c \in k THEN AnchorTypeOf(c)
                   ELSE "UNSPECIFIED"] : d \in SUBSET k} : k \in known}

\* The certificates a path is built for.
Targets == {"T", "A", "R"}

Init ==
    /\ world \in SearchWorlds
    /\ target \in Targets
    /\ trust \in TrustAssignments(world, target)
    /\ has_deadline \in BOOLEAN
    \* A deadline may lie in the past before the first call.
    /\ deadline_passed \in {b \in BOOLEAN : b => has_deadline}
    /\ max_iteration_count \in 0..MaxIterationLimit
    /\ max_path_building_depth \in 0..MaxDepthLimit
    /\ explore_all_paths \in BOOLEAN
    \* CertPathIter's constructor: next_issuer_ is the target and its trust.
    /\ next_issuer = [cert |-> target, trust |-> trust[target],
                      trust_and_key_id_match_ordering |-> 0]
    /\ cur_path = <<>>
    /\ present_certs = {}
    /\ iteration_count = 0
    /\ pc = "run"
    /\ out_certs = <<>>
    /\ out_last_cert_trust = "UNSPECIFIED"
    /\ out_errors = {}
    /\ ret = FALSE
    /\ out_result = NewResult
    /\ hist = [calls |-> 0, true_returns |-> 0,
               started_late |-> deadline_passed,
               events |-> <<>>, first |-> <<>>, calls_after_false |-> 0,
               requests |-> 0]

(***************************************************************************)
(* CertPathIter::GetNextPath.  CallGetNextPath is the entry; every other   *)
(* action is one way through one iteration of its while (true) loop.       *)
(***************************************************************************)
Return(value) ==
    /\ ret' = value
    /\ pc' = "ret"
    /\ hist' = [hist EXCEPT !.true_returns = IF value THEN @ + 1 ELSE @]

SetPath(p) ==
    /\ cur_path' = p.cur_path
    /\ present_certs' = p.present_certs

CallGetNextPath ==
    /\ pc = "run"
    /\ out_certs' = <<>>
    /\ out_last_cert_trust' = "UNSPECIFIED"
    /\ out_errors' = {}
    /\ pc' = "loop"
    /\ hist' = [hist EXCEPT !.calls = @ + 1, !.events = <<>>]
    /\ UNCHANGED <<env_vars, deadline_passed, iter_vars, ret, out_result>>

DeadlineExpired == has_deadline /\ deadline_passed

\* Variant: the depth comparison is strict.
DepthLimitReached_OffByOne ==
    /\ max_path_building_depth > 0
    /\ PathLength(Path) > max_path_building_depth

DepthLimitReached ==
    /\ max_path_building_depth > 0
    /\ PathLength(Path) >= max_path_building_depth

\* No limit stops this iteration of the loop.
LoopProceeds == pc = "loop" /\ ~DeadlineExpired /\ ~DepthLimitReached

\* Variant: the iteration cap is not looked at before fetching.
LoopFetches_Uncapped ==
    /\ LoopProceeds
    /\ next_issuer.cert = NullCert
    /\ ~PathEmpty(Path)

\* The iteration asks the top of the stack for its next issuer.
LoopFetches ==
    /\ LoopProceeds
    /\ next_issuer.cert = NullCert
    /\ ~PathEmpty(Path)
    /\ ~(/\ max_iteration_count > 0
         /\ iteration_count + 1 > max_iteration_count)

\* Variant: the clock is compared even when no deadline was set.
DeadlineExceeded_Unset ==
    /\ pc = "loop"
    /\ deadline_passed' = TRUE
    /\ out_certs' = IF PathEmpty(Path)
                    THEN IF next_issuer.cert # NullCert
                         THEN Append(out_certs, next_issuer.cert)
                         ELSE out_certs
                    ELSE CopyPath(Path)
    /\ out_errors' = out_errors \cup {OtherError("kDeadlineExceeded")}
    /\ Return(FALSE)
    /\ UNCHANGED <<env_vars, iter_vars, out_last_cert_trust, out_result>>

\* Variant: on an empty stack the pending target is not copied out.
DeadlineExceeded_NoLeaf ==
    /\ pc = "loop"
    /\ has_deadline
    /\ deadline_passed' = TRUE
    /\ out_certs' = CopyPath(Path)
    /\ out_errors' = out_errors \cup {OtherError("kDeadlineExceeded")}
    /\ Return(FALSE)
    /\ UNCHANGED <<env_vars, iter_vars, out_last_cert_trust, out_result>>

\* The clock is read only in this comparison, at the top of the loop: with
\* a deadline set, Now() may exceed it at any iteration, and does so from
\* then on.
DeadlineExceeded ==
    /\ pc = "loop"
    /\ has_deadline
    /\ deadline_passed' = TRUE
    /\ out_certs' = IF PathEmpty(Path)
                    THEN IF next_issuer.cert # NullCert
                         THEN Append(out_certs, next_issuer.cert)
                         ELSE out_certs
                    ELSE CopyPath(Path)
    /\ out_errors' = out_errors \cup {OtherError("kDeadlineExceeded")}
    /\ Return(FALSE)
    /\ UNCHANGED <<env_vars, iter_vars, out_last_cert_trust, out_result>>

\* Variant: the depth is looked at before the deadline.
DepthLimitExceeded_BeforeDeadline ==
    /\ pc = "loop"
    /\ DepthLimitReached
    /\ out_certs' = CopyPath(Path)
    /\ out_errors' = out_errors \cup {OtherError("kDepthLimitExceeded")}
    /\ IF PopAllowed(Path)
       THEN SetPath(PathPop(Path)) /\ Return(TRUE)
       ELSE pc' = "fatal" /\ UNCHANGED <<cur_path, present_certs, ret, hist>>
    /\ UNCHANGED <<env_vars, deadline_passed, next_issuer, iteration_count,
                   out_last_cert_trust, out_result>>

DepthLimitExceeded ==
    /\ pc = "loop"
    /\ ~DeadlineExpired
    /\ DepthLimitReached
    /\ out_certs' = CopyPath(Path)
    /\ out_errors' = out_errors \cup {OtherError("kDepthLimitExceeded")}
    /\ IF PopAllowed(Path)
       THEN SetPath(PathPop(Path)) /\ Return(TRUE)
       ELSE pc' = "fatal" /\ UNCHANGED <<cur_path, present_certs, ret, hist>>
    /\ UNCHANGED <<env_vars, deadline_passed, next_issuer, iteration_count,
                   out_last_cert_trust, out_result>>

\* Variant: the exhausted call counts as an iteration.
Exhausted_Counts ==
    /\ LoopProceeds
    /\ next_issuer.cert = NullCert
    /\ PathEmpty(Path)
    /\ iteration_count' = iteration_count + 1
    /\ Return(FALSE)
    /\ UNCHANGED <<env_vars, deadline_passed, next_issuer, cur_path,
                   present_certs, out_certs, out_last_cert_trust,
                   out_errors, out_result>>

Exhausted ==
    /\ LoopProceeds
    /\ next_issuer.cert = NullCert
    /\ PathEmpty(Path)
    /\ Return(FALSE)
    /\ UNCHANGED <<env_vars, deadline_passed, iter_vars, out_certs,
                   out_last_cert_trust, out_errors, out_result>>

IterationLimitExceeded ==
    /\ LoopProceeds
    /\ next_issuer.cert = NullCert
    /\ ~PathEmpty(Path)
    /\ iteration_count' = iteration_count + 1
    /\ max_iteration_count > 0
    /\ iteration_count' > max_iteration_count
    /\ out_certs' = CopyPath(Path)
    /\ out_errors' = out_errors \cup {OtherError("kIterationLimitExceeded")}
    /\ Return(FALSE)
    /\ UNCHANGED <<env_vars, deadline_passed, next_issuer, cur_path,
                   present_certs, out_last_cert_trust, out_result>>

\* The record of the build after one more call of GetNextIssuer on the top
\* of the stack.
Requested(h) == [h EXCEPT !.requests = @ + 1]

\* The path with GetNextIssuer's effect on the iterator at its top.
WithBack(p, it) == [p EXCEPT !.cur_path[Len(p.cur_path)] = it]

\* GetNextIssuer yields a candidate: the iteration goes on to look at it.
IssuerFound ==
    /\ LoopFetches
    /\ iteration_count' = iteration_count + 1
    /\ \E r \in {GetNextIssuer(PathBack(Path))} :
       /\ r.out.cert # NullCert
       /\ next_issuer' = r.out
       /\ SetPath(WithBack(Path, r.iter))
    /\ pc' = "candidate"
    /\ hist' = Requested(hist)
    /\ UNCHANGED <<env_vars, deadline_passed, call_vars, out_result>>

\* Variant: the partial path is returned without an error.
NoIssuersFound_NoError ==
    /\ LoopFetches
    /\ iteration_count' = iteration_count + 1
    /\ \E r \in {GetNextIssuer(PathBack(Path))} :
       \E p \in {WithBack(Path, r.iter)} :
          /\ r.out.cert = NullCert
          /\ ~had_non_skipped_issuers(PathBack(p))
          /\ out_certs' = CopyPath(p)
          /\ IF PopAllowed(p)
             THEN /\ SetPath(PathPop(p))
                  /\ ret' = TRUE
                  /\ pc' = "ret"
                  /\ hist' = [Requested(hist) EXCEPT !.true_returns = @ + 1]
             ELSE /\ pc' = "fatal"
                  /\ hist' = Requested(hist)
                  /\ UNCHANGED <<cur_path, present_certs, ret>>
    /\ UNCHANGED <<env_vars, deadline_passed, next_issuer, out_errors,
                   out_last_cert_trust, out_result>>

\* No candidate is left and none was ever usable: the partial path is
\* returned with kNoIssuersFound on its last certificate.
NoIssuersFound ==
    /\ LoopFetches
    /\ iteration_count' = iteration_count + 1
    /\ \E r \in {GetNextIssuer(PathBack(Path))} :
       \E p \in {WithBack(Path, r.iter)} :
          /\ r.out.cert = NullCert
          /\ ~had_non_skipped_issuers(PathBack(p))
          /\ out_certs' = CopyPath(p)
          /\ out_errors' = out_errors
                 \cup {CertError("kNoIssuersFound", Len(CopyPath(p)))}
          /\ IF PopAllowed(p)
             THEN /\ SetPath(PathPop(p))
                  /\ ret' = TRUE
                  /\ pc' = "ret"
                  /\ hist' = [Requested(hist) EXCEPT !.true_returns = @ + 1]
             ELSE /\ pc' = "fatal"
                  /\ hist' = Requested(hist)
                  /\ UNCHANGED <<cur_path, present_certs, ret>>
    /\ UNCHANGED <<env_vars, deadline_passed, next_issuer,
                   out_last_cert_trust, out_result>>

\* No candidate is left but some were tried: pop and keep searching.
Backtrack ==
    /\ LoopFetches
    /\ iteration_count' = iteration_count + 1
    /\ \E r \in {GetNextIssuer(PathBack(Path))} :
       \E p \in {WithBack(Path, r.iter)} :
          /\ r.out.cert = NullCert
          /\ had_non_skipped_issuers(PathBack(p))
          /\ IF PopAllowed(p)
             THEN SetPath(PathPop(p)) /\ pc' = "loop"
             ELSE pc' = "fatal" /\ UNCHANGED <<cur_path, present_certs>>
    /\ hist' = Requested(hist)
    /\ UNCHANGED <<env_vars, deadline_passed, next_issuer, call_vars,
                   out_result>>

\* The iteration has a candidate in next_issuer_: the one the constructor
\* or an earlier iteration left there, or the one just fetched.
HasCandidate ==
    \/ pc = "candidate"
    \/ LoopProceeds /\ next_issuer.cert # NullCert

\* Variant: the trust of a trusted leaf is not overridden.
CandidateTrust_NoLeafOverride(p, entry) == entry.trust

\* Variant: a distrusted certificate is searched from like any other.
CandidateTrust_DistrustedSearched(p, entry) ==
    IF entry.trust = "DISTRUSTED" \/ (entry.trust \in TrustedAnchorTypes
                                       /\ PathEmpty(p))
    THEN "UNSPECIFIED"
    ELSE entry.trust

\* Variant: a trust anchor is searched from like any other certificate.
CandidateTrust_AnchorSearched(p, entry) ==
    IF entry.trust \in TrustedAnchorTypes
    THEN "UNSPECIFIED"
    ELSE entry.trust

\* A trusted leaf is treated as having unspecified trust.
CandidateTrust(p, entry) ==
    IF entry.trust \in TrustedAnchorTypes /\ PathEmpty(p)
    THEN "UNSPECIFIED"
    ELSE entry.trust

\* Known trust (anchor or distrusted): the path plus the candidate is
\* returned.
ReturnPath ==
    /\ HasCandidate
    /\ CandidateTrust(Path, next_issuer) # "UNSPECIFIED"
    /\ out_certs' = Append(CopyPath(Path), next_issuer.cert)
    /\ out_last_cert_trust' = CandidateTrust(Path, next_issuer)
    /\ next_issuer' = EmptyIssuerEntry
    /\ Return(TRUE)
    /\ UNCHANGED <<env_vars, deadline_passed, cur_path, present_certs,
                   iteration_count, out_errors, out_result>>

\* Unspecified trust and already in the chain: skipped.
SkipDuplicate ==
    /\ HasCandidate
    /\ CandidateTrust(Path, next_issuer) = "UNSPECIFIED"
    /\ IsPresent(Path, next_issuer.cert)
    /\ IF PathEmpty(Path)
       THEN pc' = "fatal" /\ UNCHANGED <<cur_path, present_certs>>
       ELSE /\ SetPath(WithBack(Path,
                         increment_skipped_issuer_count(PathBack(Path))))
            /\ pc' = "loop"
    /\ next_issuer' = EmptyIssuerEntry
    /\ UNCHANGED <<env_vars, deadline_passed, iteration_count, call_vars,
                   out_result, hist>>

\* Unspecified trust and not in the chain: descend.
Descend ==
    /\ HasCandidate
    /\ CandidateTrust(Path, next_issuer) = "UNSPECIFIED"
    /\ ~IsPresent(Path, next_issuer.cert)
    /\ IF AppendAllowed(Path, next_issuer.cert)
       THEN /\ SetPath(PathAppend(Path, NewCertIssuersIter(next_issuer.cert)))
            /\ pc' = "loop"
       ELSE pc' = "fatal" /\ UNCHANGED <<cur_path, present_certs>>
    /\ next_issuer' = EmptyIssuerEntry
    /\ UNCHANGED <<env_vars, deadline_passed, iteration_count, call_vars,
                   out_result, hist>>

(***************************************************************************)
(* CertPathBuilder::Run, after GetNextPath has returned.                   *)
(***************************************************************************)
\* "add an error if there isn't one already"
WithFallbackError(errors) ==
    IF ~ContainsHighSeverityErrors(errors)
    THEN errors \cup {OtherError("kInternalError")}
    ELSE errors

\* GetNextPath returned false: flags, the partial path, and Run returns.
NoMorePaths ==
    /\ pc = "ret"
    /\ ~ret
    /\ \E flagged \in
          {[out_result EXCEPT
              !.exceeded_iteration_limit =
                  @ \/ ContainsError(out_errors, "kIterationLimitExceeded"),
              !.exceeded_deadline =
                  @ \/ ContainsError(out_errors, "kDeadlineExceeded")]} :
       \E added \in
          {IF out_certs # <<>>
           THEN AddResultPath(flagged,
                  ResultPath(out_certs, out_last_cert_trust,
                             WithFallbackError(out_errors)))
           ELSE flagged} :
          out_result' = [added EXCEPT !.iteration_count = iteration_count]
    /\ hist' = [hist EXCEPT !.events = IF out_certs # <<>>
                                       THEN <<"AddResultPath">>
                                       ELSE <<>>]
    /\ pc' = "done"
    /\ UNCHANGED <<env_vars, deadline_passed, iter_vars, call_vars>>

\* The validator and the delegate are functions of what they are given: a
\* second build of the same inputs gets, for the path it records at each
\* position, the answers the first build got there.
FirstAnswers(outcomes) ==
    {o \in outcomes :
        /\ hist.first # <<>>
        /\ Len(out_result.paths) < Len(hist.first[1].paths)
        /\ o = hist.first[1].paths[Len(out_result.paths) + 1].errors
                  \cap UNION outcomes}

Replay(outcomes) ==
    IF FirstAnswers(outcomes) = {} THEN outcomes ELSE FirstAnswers(outcomes)

\* Variant: Run goes on after a valid path even when explore_all_paths_ is
\* off.
Record_KeepGoing(errors, before) ==
    \E by_delegate \in Replay(DelegateOutcomes) :
    \E result_path \in {ResultPath(out_certs, out_last_cert_trust,
                                    errors \cup by_delegate)} :
       /\ out_result' = AddResultPath(out_result, result_path)
       /\ pc' = "run"
       /\ hist' = [hist EXCEPT !.events =
                      before \o <<"CheckPathAfterVerification", "IsValid",
                                  "AddResultPath">>]

\* Variant: the delegate is not asked.
Record_NoDelegate(errors, before) ==
    \E result_path \in {ResultPath(out_certs, out_last_cert_trust, errors)} :
    \E path_is_good \in {IsValid(result_path)} :
    \E added \in {AddResultPath(out_result, result_path)} :
       /\ hist' = [hist EXCEPT !.events =
                      before \o <<"IsValid", "AddResultPath">>]
       /\ IF path_is_good /\ ~explore_all_paths
          THEN /\ out_result' =
                    [added EXCEPT !.iteration_count = iteration_count]
               /\ pc' = "done"
          ELSE /\ out_result' = added
               /\ pc' = "run"

\* What Run does with a path once it is verified or excused from it; before
\* lists the calls Run has made for this path so far.
Record(errors, before) ==
    \E by_delegate \in Replay(DelegateOutcomes) :
    \E result_path \in {ResultPath(out_certs, out_last_cert_trust,
                                    errors \cup by_delegate)} :
    \E path_is_good \in {IsValid(result_path)} :
    \E added \in {AddResultPath(out_result, result_path)} :
       /\ hist' = [hist EXCEPT !.events =
                      before \o <<"CheckPathAfterVerification", "IsValid",
                                  "AddResultPath">>]
       /\ IF path_is_good /\ ~explore_all_paths
          THEN /\ out_result' =
                    [added EXCEPT !.iteration_count = iteration_count]
               /\ pc' = "done"
          ELSE /\ out_result' = added
               /\ pc' = "run"

\* Variant: a partial path is verified like any other.
PartialPath_Verified ==
    /\ pc = "ret"
    /\ ret
    /\ HasUnspecifiedTrust(out_last_cert_trust)
    /\ \E by_validator \in Replay(ValidatorOutcomes) :
          Record(out_errors \cup by_validator, <<"VerifyCertificateChain">>)
    /\ UNCHANGED <<env_vars, deadline_passed, iter_vars, call_vars>>

\* Variant: the delegate is not asked about a partial path.
PartialPath_NoDelegate ==
    /\ pc = "ret"
    /\ ret
    /\ HasUnspecifiedTrust(out_last_cert_trust)
    /\ Record_NoDelegate(WithFallbackError(out_errors), <<>>)
    /\ UNCHANGED <<env_vars, deadline_passed, iter_vars, call_vars>>

\* GetNextPath returned a partial path: it is not verified.
PartialPath ==
    /\ pc = "ret"
    /\ ret
    /\ HasUnspecifiedTrust(out_last_cert_trust)
    /\ Record(WithFallbackError(out_errors), <<>>)
    /\ UNCHANGED <<env_vars, deadline_passed, iter_vars, call_vars>>

\* GetNextPath returned a path of known trust: VerifyCertificateChain.
VerifyPath ==
    /\ pc = "ret"
    /\ ret
    /\ ~HasUnspecifiedTrust(out_last_cert_trust)
    /\ \E by_validator \in Replay(ValidatorOutcomes) :
          Record(out_errors \cup by_validator, <<"VerifyCertificateChain">>)
    /\ UNCHANGED <<env_vars, deadline_passed, iter_vars, call_vars>>

Next ==
    \/ CallGetNextPath
    \/ DeadlineExceeded
    \/ DepthLimitExceeded
    \/ Exhausted
    \/ IterationLimitExceeded
    \/ IssuerFound
    \/ NoIssuersFound
    \/ Backtrack
    \/ ReturnPath
    \/ SkipDuplicate
    \/ Descend
    \/ NoMorePaths
    \/ PartialPath
    \/ VerifyPath

Spec == Init /\ [][Next]_vars

(***************************************************************************)
(* A build with no iteration cap, no depth cap and no deadline that        *)
(* explores all paths.  The branches of each statement are exhaustive, so  *)
(* the only states without a successor are those where Run has returned.   *)
(***************************************************************************)
InitUnlimited ==
    /\ Init
    /\ ~has_deadline
    /\ max_iteration_count = 0
    /\ max_path_building_depth = 0
    /\ explore_all_paths

NextUnlimited ==
    \/ CallGetNextPath
    \/ Exhausted
    \/ IssuerFound
    \/ NoIssuersFound
    \/ Backtrack
    \/ ReturnPath
    \/ SkipDuplicate
    \/ Descend
    \/ NoMorePaths
    \/ PartialPath
    \/ VerifyPath

UnlimitedSpec == InitUnlimited /\ [][NextUnlimited]_vars

(***************************************************************************)
(* Two builds of the same inputs, one after the other.  When the first,    *)
(* built with no deadline, has returned, a second CertPathBuilder is       *)
(* constructed from the same target, trust store, sources and              *)
(* configuration; the Result of the first is kept in hist.first.           *)
(***************************************************************************)
BuildAgain ==
    /\ pc = "done"
    /\ ~has_deadline
    /\ hist.first = <<>>
    /\ hist' = [hist EXCEPT !.first = <<out_result>>, !.calls = 0,
                            !.true_returns = 0, !.events = <<>>,
                            !.requests = 0]
    /\ next_issuer' = [cert |-> target, trust |-> trust[target],
                       trust_and_key_id_match_ordering |-> 0]
    /\ cur_path' = <<>>
    /\ present_certs' = {}
    /\ iteration_count' = 0
    /\ pc' = "run"
    /\ out_certs' = <<>>
    /\ out_last_cert_trust' = "UNSPECIFIED"
    /\ out_errors' = {}
    /\ ret' = FALSE
    /\ out_result' = NewResult
    /\ UNCHANGED <<env_vars, deadline_passed>>

NextTwice == Next \/ BuildAgain

TwiceSpec == Init /\ [][NextTwice]_vars

(***************************************************************************)
(* CertPathIter driven by a caller that, unlike Run, calls GetNextPath     *)
(* again after it has returned false.                                      *)
(***************************************************************************)
CallAfterFalse ==
    /\ pc = "ret"
    /\ ~ret
    /\ hist.calls_after_false < MaxCallsAfterFalse
    /\ out_certs' = <<>>
    /\ out_last_cert_trust' = "UNSPECIFIED"
    /\ out_errors' = {}
    /\ pc' = "loop"
    /\ hist' = [hist EXCEPT !.calls = @ + 1, !.events = <<>>,
                            !.calls_after_false = @ + 1]
    /\ UNCHANGED <<env_vars, deadline_passed, iter_vars, ret, out_result>>

NextIter == Next \/ CallAfterFalse

\* The iterator does not look at explore_all_paths_; the caller records
\* every path and goes on.
InitIter == Init /\ explore_all_paths

IterSpec == InitIter /\ [][NextIter]_vars

(***************************************************************************)
(* One CertIssuersIter on its own: for every world and every certificate   *)
(* an iterator is constructed and GetNextIssuer is called on it again and  *)
(* again, also after it has returned the empty entry.  The iterator is the *)
(* one entry of cur_path; next_issuer holds what the last call returned.   *)
(***************************************************************************)
InitIssuers ==
    /\ world \in 1..Len(Worlds)
    /\ target \in Certs
    /\ trust \in TrustAssignments(world, target)
    /\ has_deadline = FALSE
    /\ deadline_passed = FALSE
    /\ max_iteration_count = 0
    /\ max_path_building_depth = 0
    /\ explore_all_paths = FALSE
    /\ next_issuer = EmptyIssuerEntry
    /\ cur_path = <<NewCertIssuersIter(target)>>
    /\ present_certs = {GetKey(target)}
    /\ iteration_count = 0
    /\ pc = "issuers"
    /\ out_certs = <<>>
    /\ out_last_cert_trust = "UNSPECIFIED"
    /\ out_errors = {}
    /\ ret = FALSE
    /\ out_result = NewResult
    /\ hist = [calls |-> 0, true_returns |-> 0, started_late |-> FALSE,
               events |-> <<>>, first |-> <<>>, calls_after_false |-> 0,
               requests |-> 0]

CallGetNextIssuer ==
    /\ pc = "issuers"
    /\ hist.calls_after_false < MaxCallsAfterFalse
    /\ \E r \in {GetNextIssuer(PathBack(Path))} :
       /\ next_issuer' = r.out
       /\ cur_path' = <<r.iter>>
       /\ hist' = [hist EXCEPT
                     !.calls = @ + 1,
                     !.calls_after_false =
                         IF r.out.cert = NullCert THEN @ + 1 ELSE @,
                     !.events = @ \o <<Called("GetNextIssuer", hist.calls)>>
                                  \o r.log
                                  \o <<Called("return", r.out.cert)>>]
    /\ UNCHANGED <<env_vars, deadline_passed, present_certs,
                   iteration_count, pc, call_vars, out_result>>

NextIssuers == CallGetNextIssuer

IssuersSpec == InitIssuers /\ [][NextIssuers]_vars

(***************************************************************************)
(* The priority key on its own: for every certificate whose issuers are    *)
(* sought, every candidate and every trust the store may give it, the      *)
(* IssuerEntry that AddIssuers makes of the candidate.                     *)
(***************************************************************************)
InitOrder ==
    /\ world = 1
    /\ target \in Certs
    /\ \E c \in Certs, t \in TrustTypes :
          /\ trust = [x \in Certs |-> IF x = c THEN t ELSE "UNSPECIFIED"]
          /\ next_issuer = [cert |-> c, trust |-> "UNSPECIFIED",
                            trust_and_key_id_match_ordering |-> 0]
    /\ has_deadline = FALSE
    /\ deadline_passed = FALSE
    /\ max_iteration_count = 0
    /\ max_path_building_depth = 0
    /\ explore_all_paths = FALSE
    /\ cur_path = <<>>
    /\ present_certs = {}
    /\ iteration_count = 0
    /\ pc = "entry"
    /\ out_certs = <<>>
    /\ out_last_cert_trust = "UNSPECIFIED"
    /\ out_errors = {}
    /\ ret = FALSE
    /\ out_result = NewResult
    /\ hist = [calls |-> 0, true_returns |-> 0, started_late |-> FALSE,
               events |-> <<>>, first |-> <<>>, calls_after_false |-> 0,
               requests |-> 0]

\* The entry AddIssuers builds for a candidate: its trust, looked up in the
\* trust store, and the priority key computed from it.
MakeIssuerEntry ==
    /\ pc = "entry"
    /\ next_issuer' =
          [cert |-> next_issuer.cert,
           trust |-> GetTrust(next_issuer.cert),
           trust_and_key_id_match_ordering |->
              TrustAndKeyIdentifierMatchToOrder(
                  target, next_issuer.cert, GetTrust(next_issuer.cert))]
    /\ pc' = "keyed"
    /\ UNCHANGED <<env_vars, deadline_passed, cur_path, present_certs,
                   iteration_count, call_vars, out_result, hist>>

NextOrder == MakeIssuerEntry

OrderSpec == InitOrder /\ [][NextOrder]_vars

(***************************************************************************)
(* Properties.                                                             *)
(***************************************************************************)
\* The logical identity of a certificate: normalized subject,
\* subjectAltName value and SPKI.
Identity(c) ==
    <<normalized_subject(c), subject_alt_names_extension(c), spki_tlv(c)>>

\* No two positions of the chain hold the same logical identity.
NoRepeatedIdentity(certs) ==
    \A i, j \in 1..Len(certs) :
       i # j => Identity(certs[i]) # Identity(certs[j])

\* The certificates of a returned chain that came from the path stack: all
\* of them, except a last one that was appended for its known trust.
FromStack(certs, last_cert_trust) ==
    IF HasUnspecifiedTrust(last_cert_trust)
    THEN certs
    ELSE SubSeq(certs, 1, Len(certs) - 1)

\* The recorded paths, in the order they were added.
RecordedPaths == {out_result.paths[i] : i \in 1..Len(out_result.paths)}

\* The build is configured without any limit.
NoLimits ==
    /\ ~has_deadline
    /\ max_iteration_count = 0
    /\ max_path_building_depth = 0

C2_CallsBounded ==
    max_iteration_count > 0 =>
       /\ hist.true_returns <= max_iteration_count + 1
       /\ hist.calls <= max_iteration_count + 2
       /\ pc = "done" /\ (explore_all_paths \/ ~HasValidPath(out_result))
             => ~ret

C2_IterationCapBoundsCalls ==
    /\ []C2_CallsBounded
    /\ (max_iteration_count > 0 => <>[][FALSE]_vars)

\* A capped build that was cut by the cap after returning paths.
C2_Witness ==
    /\ max_iteration_count = MaxIterationLimit
    /\ pc = "done"
    /\ out_result.exceeded_iteration_limit
    /\ hist.true_returns >= 1
    /\ ~ret

\* C3: without iteration cap, depth cap or deadline and with
\* explore_all_paths, Run takes finitely many steps and never aborts; when
\* it has returned, the last GetNextPath returned false and every failure
\* is in the Result: at least one path is recorded and every partial path
\* carries a high-severity error.
C3_ResultComplete ==
    /\ pc # "fatal"
    /\ pc = "done" =>
          /\ ~ret
          /\ out_result.paths # <<>>
          /\ GetBestPathPossiblyInvalid(out_result) # NullPath
          /\ \A rp \in RecordedPaths :
                HasUnspecifiedTrust(rp.last_cert_trust)
                   => ContainsHighSeverityErrors(rp.errors)

C3_RunTerminates == []C3_ResultComplete /\ <>[][FALSE]_vars

\* Run has returned a Result that reports total failure over several paths.
C3_Witness ==
    /\ NoLimits /\ explore_all_paths
    /\ pc = "done"
    /\ ~HasValidPath(out_result)
    /\ Len(out_result.paths) >= 2

\* The certificates some source returns, now or later, as issuers of c.
IssuersOf(c) ==
    UNION {Range(Worlds[world].sync[s][c])
             \cup Range(Flatten(Worlds[world].async[s][c].batches)) :
           s \in 1..Len(Sources)}

\* The sources know two certificates, each an issuer of the other, and the
\* path is built for one of them without any limit.
CycleScenario ==
    /\ Served(world) = {"A", "B"}
    /\ "B" \in IssuersOf("A") /\ "A" \in IssuersOf("B")
    /\ target = "A"
    /\ NoLimits

\* What GetNextPath emits in the cycle: one partial path that repeats no
\* certificate and carries kNoIssuersFound on its last certificate, then
\* false with no path.
CycleOutcome ==
    /\ pc # "fatal"
    /\ pc = "ret" /\ ret =>
          /\ hist.calls = 1
          /\ out_certs = <<"A", "B">>
          /\ NoRepeatedIdentity(out_certs)
          /\ HasUnspecifiedTrust(out_last_cert_trust)
          /\ out_errors = {CertError("kNoIssuersFound", Len(out_certs))}
    /\ pc = "ret" /\ ~ret =>
          /\ hist.calls = 2
          /\ out_certs = <<>>
          /\ out_errors = {}
    /\ pc = "done" => ~ret /\ Len(out_result.paths) = 1

C4_CycleUnspecified ==
    /\ CycleScenario
    /\ HasUnspecifiedTrust(trust["A"])
    /\ HasUnspecifiedTrust(trust["B"])
    => CycleOutcome

ValidIndexes ==
    {i \in 1..Len(out_result.paths) : IsValid(out_result.paths[i])}

\* C5: with explore_all_paths off, as soon as a valid path is recorded Run
\* has returned (no further GetNextPath call is made), and the Result holds
\* exactly one valid path, which is the last path recorded and the best one.
C5_StopEarly ==
    ~explore_all_paths /\ ValidIndexes # {} =>
       /\ pc = "done"
       /\ ValidIndexes = {Len(out_result.paths)}
       /\ out_result.best_result_index = Len(out_result.paths) - 1
       /\ GetBestValidPath(out_result)
              = out_result.paths[Len(out_result.paths)]

\* Run stopped on a valid path found after an invalid one.
C5_Witness ==
    /\ ~explore_all_paths
    /\ pc = "done"
    /\ HasValidPath(out_result)
    /\ Len(out_result.paths) >= 2
    /\ hist.calls = Len(out_result.paths)

\* An error that is not of high severity and one that is.
PathErrors == {OtherError("kVerifyWarning"), OtherError("kVerifyError")}

\* The chain GetNextPath has just handed to Run, and the empty one.
SeenChains == {<<>>, out_certs}

\* Validity as the claim words it.
ValidAsClaimed(rp) ==
    /\ rp.certs # <<>>
    /\ rp.last_cert_trust \in
          {"TRUSTED_ANCHOR", "TRUSTED_ANCHOR_WITH_EXPIRATION",
           "TRUSTED_ANCHOR_WITH_CONSTRAINTS"}
    /\ \A e \in rp.errors : ~IsHighSeverity(e)

\* C6: a result path is valid exactly when it is non-empty, its terminal
\* trust is one of the three trust-anchor variants and it has no
\* high-severity error: for every recorded path, and for the chain of every
\* returned call under every trust type and every set of errors.  A path
\* that ends in a distrusted or unspecified certificate is never valid.
C6_ValidIff ==
    /\ \A rp \in RecordedPaths :
          /\ IsValid(rp) <=> ValidAsClaimed(rp)
          /\ rp.last_cert_trust \in {"DISTRUSTED", "UNSPECIFIED"}
                => ~IsValid(rp)
    /\ pc = "ret" =>
          \A certs \in SeenChains, t \in TrustTypes,
             errors \in SUBSET PathErrors :
                IsValid(ResultPath(certs, t, errors))
                   <=> ValidAsClaimed(ResultPath(certs, t, errors))

\* Recorded: a valid path, an anchor path the validator rejected and a
\* distrusted path the validator and the delegate had nothing against.
C6_Witness ==
    /\ \E rp \in RecordedPaths : IsValid(rp)
    /\ \E rp \in RecordedPaths :
          /\ rp.last_cert_trust \in TrustedAnchorTypes
          /\ ~IsValid(rp)
    /\ \E rp \in RecordedPaths :
          /\ rp.last_cert_trust = "DISTRUSTED"
          /\ ~ContainsHighSeverityErrors(rp.errors)

\* The terminal trust of a recorded path is an anchor variant or distrusted.
HasKnownTrust(rp) == ~HasUnspecifiedTrust(rp.last_cert_trust)

\* C7: whatever was recorded so far, the best path follows the preference
\* order: if some recorded path is valid the best path is valid, and
\* GetBestValidPath is non-null exactly when some recorded path is valid;
\* otherwise, if some recorded path has a known terminal trust, so has the
\* best path; a partial path is best only when nothing else was recorded.
C7_BestPathPreference ==
    /\ GetBestValidPath(out_result) # NullPath <=> ValidIndexes # {}
    /\ HasValidPath(out_result) <=> ValidIndexes # {}
    /\ out_result.paths # <<>> =>
          /\ GetBestPathPossiblyInvalid(out_result) # NullPath
          /\ ValidIndexes # {}
                => IsValid(GetBestPathPossiblyInvalid(out_result))
          /\ (\E rp \in RecordedPaths : HasKnownTrust(rp))
                => HasKnownTrust(GetBestPathPossiblyInvalid(out_result))

\* A partial path was recorded first, a path of known trust later took its
\* place as the best path, and no recorded path is valid.
C7_Witness ==
    /\ Len(out_result.paths) >= 2
    /\ ~HasKnownTrust(out_result.paths[1])
    /\ out_result.best_result_index > 0
    /\ ValidIndexes = {}

\* Once some recorded path is valid, a step leaves best_result_index alone.
BestIndexKept ==
    HasValidPath(out_result) =>
       out_result'.best_result_index = out_result.best_result_index

\* The best path is the first valid path recorded.
BestIsFirstValid ==
    ValidIndexes # {} =>
       /\ out_result.best_result_index + 1 \in ValidIndexes
       /\ \A i \in ValidIndexes : out_result.best_result_index + 1 <= i

\* C8: once a valid path has been recorded best_result_index never changes
\* again, whatever is recorded afterwards, and the best path is the first
\* valid path recorded.
C8_BestIndexFrozen == []BestIsFirstValid /\ [][BestIndexKept]_vars

\* An explore-all build recorded a second valid path and then an invalid
\* one, after the best path was fixed.
C8_Witness ==
    /\ explore_all_paths
    /\ Cardinality(ValidIndexes) >= 2
    /\ Len(out_result.paths) \notin ValidIndexes
    /\ out_result.best_result_index + 2 < Len(out_result.paths)

\* C9: when the deadline is already past before the first GetNextPath call,
\* that call returns false with the target alone and kDeadlineExceeded, no
\* call returns true and no second call is made, and Run returns a Result
\* with exceeded_deadline set, exactly one recorded path and no valid path.
C9_DeadlineInPast ==
    hist.started_late =>
       /\ hist.calls <= 1
       /\ hist.true_returns = 0
       /\ pc \in {"ret", "done"} =>
             /\ ~ret
             /\ out_certs = <<target>>
             /\ out_errors = {OtherError("kDeadlineExceeded")}
       /\ pc = "done" =>
             /\ out_result.exceeded_deadline
             /\ Len(out_result.paths) = 1
             /\ out_result.paths[1].certs = <<target>>
             /\ ContainsError(out_result.paths[1].errors, "kDeadlineExceeded")
             /\ ValidIndexes = {}
             /\ ~HasValidPath(out_result)

\* Run has returned from a build whose deadline was past from the start and
\* whose target is itself a trust anchor.
C9_Witness ==
    /\ hist.started_late
    /\ trust[target] \in TrustedAnchorTypes
    /\ pc = "done"
    /\ Len(out_result.paths) = 1

\* Depth cap 1, no deadline, and a target that is searched from (it is not
\* distrusted): the first GetNextPath call has returned.
FirstCallUnderDepthCapOne ==
    /\ max_path_building_depth = 1
    /\ ~has_deadline
    /\ trust[target] # "DISTRUSTED"
    /\ hist.calls = 1
    /\ pc = "ret"

\* The call returned true with the target alone, kDepthLimitExceeded and
\* unspecified trust, without asking for any issuer, and left the stack as
\* it found it: the one level pushed for the target was popped.
DepthLimitOutcome ==
    FirstCallUnderDepthCapOne =>
       /\ ret
       /\ out_certs = <<target>>
       /\ out_errors = {OtherError("kDepthLimitExceeded")}
       /\ HasUnspecifiedTrust(out_last_cert_trust)
       /\ iteration_count = 0
       /\ cur_path = <<>>
       /\ present_certs = {}

\* A call that returns with kDepthLimitExceeded returns true, hands out the
\* stack as it was, and pops exactly one level in that step.
DepthReturnPopsOne ==
    /\ pc = "loop"
    /\ pc' = "ret"
    /\ ContainsError(out_errors', "kDepthLimitExceeded")
    => /\ ret'
       /\ out_certs' = CopyPath(Path)
       /\ Len(cur_path') = Len(cur_path) - 1
       /\ cur_path' = SubSeq(cur_path, 1, Len(cur_path) - 1)

\* C10: with depth cap 1 and a target whose chain to an anchor needs two
\* intermediates, the first GetNextPath call returns true with the partial
\* path made of the target alone, kDepthLimitExceeded and unspecified
\* terminal trust, and the stack is popped by exactly one level in that
\* call.
C10_DepthLimit == []DepthLimitOutcome /\ [][DepthReturnPopsOne]_vars

\* The chain T <- A <- B <- R with R the only anchor, depth cap 1: the first
\* call has returned the partial path.
C10_Witness ==
    /\ FirstCallUnderDepthCapOne
    /\ world = 1 /\ target = "T"
    /\ trust["R"] \in TrustedAnchorTypes
    /\ \A c \in {"T", "A", "B"} : HasUnspecifiedTrust(trust[c])
    /\ ret
    /\ ContainsError(out_errors, "kDepthLimitExceeded")

\* GetNextPath has just returned true with a path of known terminal trust.
CompletePathReturned ==
    pc = "ret" /\ ret /\ ~HasUnspecifiedTrust(out_last_cert_trust)

\* With a trust-anchor target and an empty stack, a step that does not
\* return pushes the target on the stack.
TrustedLeafPushed ==
    /\ trust[target] \in TrustedAnchorTypes
    /\ pc = "loop"
    /\ cur_path = <<>>
    /\ next_issuer.cert = target
    /\ pc' # "ret"
    => /\ cur_path' = <<NewCertIssuersIter(target)>>
       /\ present_certs' = {GetKey(target)}

\* With a trust-anchor target every path returned starts with the target,
\* a complete path has at least two certificates, and its second one was
\* returned by the lookup of the target's issuers.
TrustedLeafSearchedFrom ==
    trust[target] \in TrustedAnchorTypes =>
       /\ pc = "ret" /\ out_certs # <<>> => out_certs[1] = target
       /\ CompletePathReturned =>
             /\ Len(out_certs) >= 2
             /\ out_certs[2] \in IssuersOf(target)
       /\ \A rp \in RecordedPaths :
             ~HasUnspecifiedTrust(rp.last_cert_trust) => Len(rp.certs) >= 2

EndsInTargetByLookup ==
    trust[target] \in TrustedAnchorTypes /\ CompletePathReturned
    /\ out_certs[Len(out_certs)] = target
    => /\ target \in IssuersOf(out_certs[Len(out_certs) - 1])
       /\ Len(out_certs) = 2 => target \in IssuersOf(target)

TrustedLeafRule == TrustedLeafSearchedFrom /\ EndsInTargetByLookup

StackIters == {cur_path[i] : i \in 1..Len(cur_path)}

\* Candidates x and y have the same key-identifier match class as issuers
\* of c.
SameKeyIdClass(c, x, y) ==
    CalculateKeyIdentifierMatch(c, x) = CalculateKeyIdentifierMatch(c, y)

\* Entry a is distrusted, entry b a trust anchor of the same class.
DistrustedAndTrusted(c, a, b) ==
    /\ a.trust = "DISTRUSTED"
    /\ b.trust \in TrustedAnchorTypes
    /\ SameKeyIdClass(c, a.cert, b.cert)

\* What the sources return synchronously as issuers of c.
SyncIssuersOf(c) ==
    UNION {Range(SyncGetIssuersOf(s, c)) : s \in 1..Len(Sources)}

\* C12 as stated: of two candidate issuers of one certificate with the same
\* key-identifier match class, one a trust anchor and one distrusted, the
\* iterator never returns the distrusted one while the trusted one is yet
\* to come, whichever sources supplied them.
C12_TrustedAlwaysFirst ==
    \A it \in StackIters :
       \A i, j \in 1..Len(it.issuers) :
          i <= it.cur_issuer /\ i < j
             => ~DistrustedAndTrusted(it.cert, it.issuers[i], it.issuers[j])

\* C12, amended: when GetNextIssuer returns a candidate, no candidate the
\* iterator holds at that time and has not returned is a trust anchor of the
\* same key-identifier match class if the returned one is distrusted; in
\* particular a trust anchor is returned before a distrusted candidate of
\* the same class when the sources supply both synchronously.
C12_TrustedFirstAmongKnown ==
    /\ pc = "candidate" =>
          /\ next_issuer
                = PathBack(Path).issuers[PathBack(Path).cur_issuer]
          /\ \A j \in (PathBack(Path).cur_issuer + 1)
                         ..Len(PathBack(Path).issuers) :
                ~DistrustedAndTrusted(PathBack(Path).cert, next_issuer,
                                      PathBack(Path).issuers[j])
    /\ \A it \in StackIters :
          \A i, j \in 1..Len(it.issuers) :
             /\ i <= it.cur_issuer /\ i < j
             /\ {it.issuers[i].cert, it.issuers[j].cert}
                   \subseteq SyncIssuersOf(it.cert)
             => ~DistrustedAndTrusted(it.cert, it.issuers[i],
                                      it.issuers[j])

\* The iterator has just returned a trust anchor and still holds a
\* distrusted candidate of the same class that a source listed before it.
C12_Witness ==
    /\ pc = "candidate"
    /\ \E j \in (PathBack(Path).cur_issuer + 1)..Len(PathBack(Path).issuers) :
          /\ DistrustedAndTrusted(PathBack(Path).cert,
                                  PathBack(Path).issuers[j], next_issuer)
          /\ \E s \in 1..Len(Sources) :
             \E m, n \in 1..Len(SyncGetIssuersOf(s, PathBack(Path).cert)) :
                /\ m < n
                /\ SyncGetIssuersOf(s, PathBack(Path).cert)[m]
                      = PathBack(Path).issuers[j].cert
                /\ SyncGetIssuersOf(s, PathBack(Path).cert)[n]
                      = next_issuer.cert

\* The certificate sequences of a Result's paths, in recorded order.
CertSequences(res) == [i \in 1..Len(res.paths) |-> res.paths[i].certs]

\* The second of two builds of the same inputs has returned.
SecondBuildDone == hist.first # <<>> /\ pc = "done"

RunReturned == pc = "done"

\* The last call of GetNextPath stopped because the iteration counter
\* exceeded the iteration cap.
StoppedByIterationLimit ==
    ~ret /\ max_iteration_count > 0 /\ iteration_count > max_iteration_count

\* The last call of GetNextPath stopped because the deadline had passed.
StoppedByDeadline == ~ret /\ has_deadline /\ deadline_passed

\* C14: when Run returns, exceeded_iteration_limit is true iff the search
\* stopped because the iteration counter exceeded the cap, exceeded_deadline
\* is true iff it stopped because the deadline had passed; both are false
\* after plain exhaustion and after the stop at the first valid path, and
\* they are never both true.
C14_LimitFlags ==
    RunReturned =>
       /\ out_result.exceeded_iteration_limit <=> StoppedByIterationLimit
       /\ out_result.exceeded_deadline <=> StoppedByDeadline
       /\ ret => /\ ~out_result.exceeded_iteration_limit
                 /\ ~out_result.exceeded_deadline
       /\ ~ret /\ out_errors = {} =>
             /\ ~out_result.exceeded_iteration_limit
             /\ ~out_result.exceeded_deadline
       /\ ~(out_result.exceeded_iteration_limit
            /\ out_result.exceeded_deadline)

\* Run returned because the deadline passed in a build that also has an
\* iteration cap and has recorded paths before.
C14_Witness ==
    /\ RunReturned
    /\ out_result.exceeded_deadline
    /\ max_iteration_count > 0
    /\ Len(out_result.paths) >= 2

\* Run has dealt with the path the last call of GetNextPath returned with
\* true.
PathProcessed == pc \in {"run", "done"} /\ ret

\* The path most recently recorded.
LastRecorded == out_result.paths[Len(out_result.paths)]

\* For a processed path of known trust Run called the validator, then the
\* delegate, then evaluated validity, then recorded the path: each once.
DelegateOnceInOrder ==
    PathProcessed /\ ~HasUnspecifiedTrust(out_last_cert_trust) =>
       /\ hist.events = <<"VerifyCertificateChain",
                          "CheckPathAfterVerification", "IsValid",
                          "AddResultPath">>
       /\ LastRecorded.certs = out_certs
       /\ \E by_validator \in ValidatorOutcomes :
             by_validator \subseteq LastRecorded.errors

\* Whether Run stops at a path of known trust is decided by the validity of
\* the path as recorded, the delegate's errors included.
ValidityAfterDelegate ==
    pc = "ret" /\ ret /\ ~HasUnspecifiedTrust(out_last_cert_trust) =>
       /\ Len(out_result'.paths) = Len(out_result.paths) + 1
       /\ pc' = "done" <=>
             /\ ~explore_all_paths
             /\ IsValid(out_result'.paths[Len(out_result'.paths)])
       /\ \E by_delegate \in DelegateOutcomes :
             out_result'.paths[Len(out_result'.paths)].errors
                \cap UNION DelegateOutcomes = by_delegate

\* C15: for every complete candidate path of known terminal trust the
\* delegate's CheckPathAfterVerification is invoked exactly once, after the
\* validator has run on the path and before its validity is evaluated and
\* it is recorded.
C15_DelegateOnce == []DelegateOnceInOrder /\ [][ValidityAfterDelegate]_vars

\* A path ending in a trust anchor that the validator passed and the
\* delegate rejected: Run went on.
C15_Witness ==
    /\ PathProcessed
    /\ pc = "run"
    /\ ~explore_all_paths
    /\ out_last_cert_trust \in TrustedAnchorTypes
    /\ LastRecorded.errors
          = {OtherError("kVerifyWarning"), OtherError("kDelegateError")}

\* How often event e occurs in the sequence events.
Count(events, e) == Cardinality({i \in 1..Len(events) : events[i] = e})

\* C16: the chain validator is invoked exactly once for each path that
\* GetNextPath yields with a known terminal trust, and never for a path with
\* Unspecified terminal trust, which is recorded without validation.
C16_ValidatorOnce ==
    /\ PathProcessed /\ ~HasUnspecifiedTrust(out_last_cert_trust) =>
          Count(hist.events, "VerifyCertificateChain") = 1
    /\ PathProcessed /\ HasUnspecifiedTrust(out_last_cert_trust) =>
          /\ Count(hist.events, "VerifyCertificateChain") = 0
          /\ Count(hist.events, "AddResultPath") = 1
          /\ LastRecorded.certs = out_certs
          /\ LastRecorded.errors \cap UNION ValidatorOutcomes = {}
    /\ RunReturned /\ ~ret =>
          /\ Count(hist.events, "VerifyCertificateChain") = 0
          /\ out_certs # <<>> =>
                /\ LastRecorded.certs = out_certs
                /\ LastRecorded.errors \cap UNION ValidatorOutcomes = {}

\* Run has recorded a partial path that a true return yielded, after having
\* verified a path of known trust before it.
C16_Witness ==
    /\ PathProcessed
    /\ HasUnspecifiedTrust(out_last_cert_trust)
    /\ Len(out_result.paths) >= 2
    /\ ~HasUnspecifiedTrust(out_result.paths[1].last_cert_trust)

\* The errors that mark a path as incomplete.
IncompleteErrors ==
    {"kNoIssuersFound", "kDepthLimitExceeded", "kIterationLimitExceeded",
     "kDeadlineExceeded", "kInternalError"}

\* C17: every recorded path whose terminal trust is Unspecified carries at
\* least one error among kNoIssuersFound, kDepthLimitExceeded,
\* kIterationLimitExceeded, kDeadlineExceeded and kInternalError; no
\* incomplete path is recorded with an empty error collection.
C17_IncompleteHasError ==
    \A rp \in RecordedPaths :
       HasUnspecifiedTrust(rp.last_cert_trust) =>
          /\ rp.errors # {}
          /\ \E e \in rp.errors : e.id \in IncompleteErrors

\* Two incomplete paths are recorded: one at a dead end, returned with
\* true, and one that a false return left behind.
C17_Witness ==
    /\ RunReturned
    /\ ~ret
    /\ out_certs # <<>>
    /\ HasUnspecifiedTrust(LastRecorded.last_cert_trust)
    /\ \E rp \in RecordedPaths :
          /\ HasUnspecifiedTrust(rp.last_cert_trust)
          /\ ContainsError(rp.errors, "kNoIssuersFound")

\* The step appends exactly one path, made of what GetNextPath returned.
AppendsReturnedPath ==
    /\ Len(out_result'.paths) = Len(out_result.paths) + 1
    /\ SubSeq(out_result'.paths, 1, Len(out_result.paths)) = out_result.paths
    /\ out_result'.paths[Len(out_result'.paths)].certs = out_certs
    /\ out_result'.paths[Len(out_result'.paths)].last_cert_trust
          = out_last_cert_trust

\* What each step does to the list of recorded paths.
RecordingStep ==
    /\ pc = "ret" /\ ret => AppendsReturnedPath
    /\ pc = "ret" /\ ~ret /\ out_certs # <<>> => AppendsReturnedPath
    /\ pc = "ret" /\ ~ret /\ out_certs = <<>> =>
          out_result'.paths = out_result.paths
    /\ pc # "ret" => out_result'.paths = out_result.paths

\* One recorded path per true return, plus the one a false return left.
RecordedOncePerReturn ==
    /\ pc = "run" => Len(out_result.paths) = hist.true_returns
    /\ pc = "ret" =>
          Len(out_result.paths) = hist.true_returns - (IF ret THEN 1 ELSE 0)
    /\ RunReturned =>
          Len(out_result.paths)
             = hist.true_returns
                  + (IF ~ret /\ out_certs # <<>> THEN 1 ELSE 0)

\* C18: every path GetNextPath returns with true is recorded exactly once,
\* valid or not, in the order the paths were yielded; a path returned with
\* false is recorded iff it is not empty; the list of recorded paths only
\* grows by appending.
C18_RecordedInOrder == []RecordedOncePerReturn /\ [][RecordingStep]_vars

\* Three paths are recorded: an invalid one, a valid one, and the partial
\* path of a false return.
C18_Witness ==
    /\ RunReturned
    /\ ~ret
    /\ Len(out_result.paths) = 3
    /\ out_result.best_result_index = 1
    /\ HasValidPath(out_result)
    /\ LastRecorded.certs = out_certs

\* The stack is empty and no candidate is pending: what GetNextPath finds
\* when it returns false for exhaustion.
IteratorExhausted == cur_path = <<>> /\ next_issuer.cert = NullCert

\* From an exhausted iterator a step leaves the iterator as it is, and a
\* call during which the deadline has not passed returns false with an empty
\* path, Unspecified trust and no error.
ExhaustedStep ==
    IteratorExhausted /\ (pc = "loop" \/ (pc = "ret" /\ ~ret)) =>
       /\ UNCHANGED iter_vars
       /\ pc = "loop" /\ ~deadline_passed' =>
             /\ pc' = "ret"
             /\ ~ret'
             /\ out_certs' = <<>>
             /\ HasUnspecifiedTrust(out_last_cert_trust')
             /\ out_errors' = {}

\* C19: exhaustion is terminal: once GetNextPath has returned false because
\* the stack is empty and no candidate is pending, every later call during
\* which no deadline has passed returns false with an empty path,
\* Unspecified trust and no error added, and leaves the iterator unchanged.
C19_ExhaustionTerminal == [][ExhaustedStep]_vars

\* GetNextPath was called twice after a false return and each of the three
\* calls found the iterator exhausted.
C19_Witness ==
    /\ pc = "ret"
    /\ ~ret
    /\ IteratorExhausted
    /\ hist.calls_after_false = 2
    /\ hist.true_returns >= 2
    /\ ~deadline_passed
    /\ out_certs = <<>>
    /\ out_errors = {}

\* The certificates on the path stack, bottom first.
StackCerts == [i \in 1..Len(cur_path) |-> cur_path[i].cert]

\* C20: no logical identity occurs twice on the path stack, present_certs_
\* holds exactly the identities of the stack's entries, and the assertions
\* of Append and Pop never fail.
C20_StackConsistent ==
    /\ NoRepeatedIdentity(StackCerts)
    /\ present_certs = {Identity(StackCerts[i]) : i \in 1..Len(cur_path)}
    /\ Cardinality(present_certs) = Len(cur_path)
    /\ pc # "fatal"

\* The stack holds three certificates and the top of it has just been
\* offered a re-encoding of one of them as its issuer.
C20_Witness ==
    /\ Len(cur_path) = 3
    /\ pc = "candidate"
    /\ next_issuer.cert \notin {StackCerts[i] : i \in 1..Len(cur_path)}
    /\ IsPresent(Path, next_issuer.cert)

\* The next step of the loop skips the pending candidate as a duplicate,
\* which increments the skipped count of the top of the stack.
SkipPending ==
    /\ HasCandidate
    /\ CandidateTrust(Path, next_issuer) = "UNSPECIFIED"
    /\ IsPresent(Path, next_issuer.cert)

\* The next step of the loop pops the stack for the depth limit.
DepthPopPending == pc = "loop" /\ ~DeadlineExpired /\ DepthLimitReached

\* C21: in any sequence of GetNextPath calls with any combination of
\* limits the stack is not popped and its top is not accessed while it is
\* empty: no step fails for it, and wherever the loop is about to pop for
\* the depth limit, has taken a candidate from the top, or is about to
\* count a skipped candidate on the top, the stack is not empty.
C21_TopOnlyWhenNonEmpty ==
    /\ pc # "fatal"
    /\ DepthPopPending => cur_path # <<>>
    /\ pc = "candidate" => cur_path # <<>>
    /\ SkipPending => cur_path # <<>>

\* The stack has been popped down to empty and GetNextPath is running
\* again, called after a false return.
C21_Witness ==
    /\ pc = "loop"
    /\ cur_path = <<>>
    /\ next_issuer.cert = NullCert
    /\ hist.true_returns >= 2
    /\ hist.calls_after_false >= 1
    /\ max_path_building_depth > 0

\* Iterator order: the candidates a fresh iterator for c returns, call after
\* call, until it returns the empty entry.
RECURSIVE AllIssuers(_)
AllIssuers(it) ==
    IF GetNextIssuer(it).out.cert = NullCert
    THEN <<>>
    ELSE <<GetNextIssuer(it).out>> \o AllIssuers(GetNextIssuer(it).iter)

IteratorOrder(c) == AllIssuers(NewCertIssuersIter(c))

\* The candidate is skipped at a node with this stack: its trust is
\* unspecified and its identity is on the stack.
RefSkipped(stack, e) ==
    /\ HasUnspecifiedTrust(e.trust)
    /\ \E i \in 1..Len(stack) : Identity(stack[i]) = Identity(e.cert)

\* The reference recursive depth-first search: the paths found below the
\* node whose stack is given, as pairs of certificate list and terminal
\* trust.  RefCandidates goes through the node's candidates from position
\* k; RefVisit adds the NoIssuersFound partial path of a node all of whose
\* candidates were skipped.
RECURSIVE RefCandidates(_, _, _)
RECURSIVE RefVisit(_)
RefCandidates(stack, cands, k) ==
    IF k > Len(cands)
    THEN <<>>
    ELSE (IF ~HasUnspecifiedTrust(cands[k].trust)
          THEN << <<Append(stack, cands[k].cert), cands[k].trust>> >>
          ELSE IF RefSkipped(stack, cands[k])
               THEN <<>>
               ELSE RefVisit(Append(stack, cands[k].cert)))
         \o RefCandidates(stack, cands, k + 1)

RefVisit(stack) ==
    RefCandidates(stack, IteratorOrder(stack[Len(stack)]), 1)
    \o (IF \A k \in 1..Len(IteratorOrder(stack[Len(stack)])) :
              RefSkipped(stack, IteratorOrder(stack[Len(stack)])[k])
        THEN << <<stack, "UNSPECIFIED">> >>
        ELSE <<>>)

\* The search from the target: a distrusted target is itself the one path;
\* any other target, a trust anchor included, is searched from.
RefSearch ==
    IF trust[target] = "DISTRUSTED"
    THEN << << <<target>>, "DISTRUSTED">> >>
    ELSE RefVisit(<<target>>)

\* The paths GetNextPath has yielded so far and Run has recorded.
Yielded ==
    [i \in 1..Len(out_result.paths) |->
        <<out_result.paths[i].certs, out_result.paths[i].last_cert_trust>>]

\* C22: with no limits set, the sequence of paths (certificate list and
\* terminal trust) that successive GetNextPath calls produce equals the
\* sequence the reference recursive depth-first search produces: each true
\* return is the reference's next path, and false is returned when the
\* reference has no path left.
C22_Resumable ==
    /\ pc = "ret" /\ ret =>
          /\ Len(out_result.paths) < Len(RefSearch)
          /\ <<out_certs, out_last_cert_trust>>
                = RefSearch[Len(out_result.paths) + 1]
          /\ Yielded = SubSeq(RefSearch, 1, Len(out_result.paths))
    /\ pc = "ret" /\ ~ret =>
          /\ out_certs = <<>>
          /\ Yielded = RefSearch

\* GetNextPath has returned false after four or more paths, among them a
\* partial path of two or more certificates and a path of known trust.
C22_Witness ==
    /\ pc = "ret"
    /\ ~ret
    /\ Len(RefSearch) >= 4
    /\ \E i \in 1..Len(RefSearch) :
          /\ HasUnspecifiedTrust(RefSearch[i][2])
          /\ Len(RefSearch[i][1]) >= 2
    /\ \E i \in 1..Len(RefSearch) : ~HasUnspecifiedTrust(RefSearch[i][2])

\* The loop asks the top of the stack for its next issuer and there is
\* none.
TopHasNoFurtherCandidate ==
    LoopFetches /\ GetNextIssuer(PathBack(Path)).out.cert = NullCert

\* The top of the stack after that call of GetNextIssuer.
AskedTop == GetNextIssuer(PathBack(Path)).iter

\* The stack loses exactly its top entry.
PopsOneLevel ==
    cur_path' = SubSeq(cur_path, 1, Len(cur_path) - 1)

\* What the step does when the top of the stack is asked (the deadline does
\* not pass first) and has no further candidate.
NoFurtherCandidateStep ==
    TopHasNoFurtherCandidate /\ ~deadline_passed' =>
       IF Len(AskedTop.issuers) <= AskedTop.skipped_issuer_count
       THEN /\ pc' = "ret"
            /\ ret'
            /\ out_certs' = StackCerts
            /\ HasUnspecifiedTrust(out_last_cert_trust')
            /\ CertError("kNoIssuersFound", Len(StackCerts)) \in out_errors'
            /\ PopsOneLevel
       ELSE /\ pc' = "loop"
            /\ PopsOneLevel
            /\ UNCHANGED call_vars
            /\ hist'.true_returns = hist.true_returns

\* C23: when the top-of-stack iterator has no further candidate, then if
\* the candidates it discovered do not outnumber those skipped as on-stack
\* duplicates (none discovered included), GetNextPath returns true with the
\* current stack as a partial path whose last certificate carries
\* kNoIssuersFound and pops exactly one level; otherwise it pops one level
\* and keeps searching in the same call without emitting a path.
C23_NoFurtherCandidate == [][NoFurtherCandidateStep]_vars

\* A partial path was returned at a certificate that has candidate issuers,
\* every one of them skipped as already on the stack.
C23_Witness ==
    /\ pc = "ret"
    /\ ret
    /\ Len(out_certs) >= 2
    /\ CertError("kNoIssuersFound", Len(out_certs)) \in out_errors
    /\ IssuersOf(out_certs[Len(out_certs)]) # {}

\* The trust groups of the claim: the three anchor variants are one group.
TrustGroup(t) ==
    IF t \in TrustedAnchorTypes THEN "trusted-anchor"
    ELSE IF t = "DISTRUSTED" THEN "distrusted" ELSE "unspecified"

\* The order the claim lists, from highest to lowest priority.
ClaimedOrder ==
    << <<"trusted-anchor", kMatch>>, <<"trusted-anchor", kNoData>>,
       <<"unspecified", kMatch>>, <<"unspecified", kNoData>>,
       <<"trusted-anchor", kMismatch>>, <<"unspecified", kMismatch>>,
       <<"distrusted", kMatch>>, <<"distrusted", kNoData>>,
       <<"distrusted", kMismatch>> >>

\* The place of a candidate of trust t for the certificate tgt in that
\* order.
ClaimedPlace(tgt, issuer, t) ==
    CHOOSE i \in 1..Len(ClaimedOrder) :
       ClaimedOrder[i] = <<TrustGroup(t),
                           CalculateKeyIdentifierMatch(tgt, issuer)>>

\* C24: the priority key of a candidate realises exactly the listed total
\* order: the key of one candidate is smaller than the key of another
\* exactly if its trust group and match class come earlier in the list, so
\* the three anchor variants share their keys and distinct pairs of trust
\* group and match class have distinct keys.
C24_PriorityOrder ==
    pc = "keyed" =>
       \A c \in Certs, t \in TrustTypes :
          /\ next_issuer.trust_and_key_id_match_ordering
                < TrustAndKeyIdentifierMatchToOrder(target, c, t)
             <=> ClaimedPlace(target, next_issuer.cert, next_issuer.trust)
                    < ClaimedPlace(target, c, t)
          /\ next_issuer.trust_and_key_id_match_ordering
                = TrustAndKeyIdentifierMatchToOrder(target, c, t)
             <=> ClaimedPlace(target, next_issuer.cert, next_issuer.trust)
                    = ClaimedPlace(target, c, t)

\* A trust anchor whose key identifier does not match has got its key.
C24_Witness ==
    /\ pc = "keyed"
    /\ next_issuer.trust = "TRUSTED_ANCHOR_WITH_CONSTRAINTS"
    /\ CalculateKeyIdentifierMatch(target, next_issuer.cert) = kMismatch
    /\ next_issuer.trust_and_key_id_match_ordering > 0

\* The certificate is self-issued: its subject is its issuer.
SelfIssued(c) == normalized_subject(c) = normalized_issuer(c)

\* The iterator at the top of the stack, from which the pending candidate
\* was taken, and the positions of its candidates not yet returned.
Top == PathBack(Path)

Unreturned == (Top.cur_issuer + 1)..Len(Top.issuers)

\* The entries have the same priority key.
SameKey(a, b) ==
    a.trust_and_key_id_match_ordering = b.trust_and_key_id_match_ordering

\* A source lists candidate x before candidate y in a synchronous answer
\* for c.
ListedBefore(c, x, y) ==
    \E s \in 1..Len(Sources) :
       \E m, n \in 1..Len(SyncGetIssuersOf(s, c)) :
          /\ m < n
          /\ SyncGetIssuersOf(s, c)[m] = x
          /\ SyncGetIssuersOf(s, c)[n] = y

\* C25 as stated: among the candidates not yet returned that have equal
\* priority keys, the iterator returns one that is not self-issued before
\* one that is: when it returns a self-issued candidate, every unreturned
\* candidate with the same key is self-issued too.
C25_NotSelfIssuedFirst ==
    pc = "candidate" =>
       \A j \in Unreturned :
          SameKey(next_issuer, Top.issuers[j]) /\ SelfIssued(next_issuer.cert)
             => SelfIssued(Top.issuers[j].cert)

\* C25, amended: among the candidates not yet returned that have equal
\* priority keys, the iterator returns one that is self-issued before one
\* that is not: when it returns a candidate that is not self-issued, no
\* unreturned candidate with the same key is self-issued.
C25_SelfIssuedFirst ==
    pc = "candidate" =>
       \A j \in Unreturned :
          SameKey(next_issuer, Top.issuers[j]) /\ ~SelfIssued(next_issuer.cert)
             => ~SelfIssued(Top.issuers[j].cert)

\* The iterator has returned a self-issued candidate and still holds one
\* with the same key that is not self-issued and that a source listed
\* first.
C25_Witness ==
    /\ pc = "candidate"
    /\ SelfIssued(next_issuer.cert)
    /\ \E j \in Unreturned :
          /\ SameKey(next_issuer, Top.issuers[j])
          /\ ~SelfIssued(Top.issuers[j].cert)
          /\ ListedBefore(Top.cert, Top.issuers[j].cert, next_issuer.cert)

\* GetNextIssuer has just returned a candidate.
IssuerReturned ==
    pc \in {"issuers", "candidate"} /\ next_issuer.cert # NullCert

\* Candidates in discovery order: what the sources answer for c, the
\* synchronous answers of all sources first, then the batches of each
\* request.
RECURSIVE Discovered(_, _, _)
Discovered(c, s, async) ==
    IF s > Len(Sources)
    THEN IF async THEN <<>> ELSE Discovered(c, 1, TRUE)
    ELSE (IF async
          THEN Flatten(AsyncGetIssuersOf(s, c).batches)
          ELSE SyncGetIssuersOf(s, c))
         \o Discovered(c, s + 1, async)

\* Candidate x is discovered before candidate y as an issuer of c.
DiscoveredBefore(c, x, y) ==
    \E m \in 1..Len(Discovered(c, 1, FALSE)) :
       /\ Discovered(c, 1, FALSE)[m] = x
       /\ \A n \in 1..m : Discovered(c, 1, FALSE)[n] # y

\* The entries have equal priority keys and are both self-issued or both
\* not.
SameKeyAndSelfIssued(a, b) ==
    /\ SameKey(a, b)
    /\ SelfIssued(a.cert) <=> SelfIssued(b.cert)

SameDates(a, b) ==
    /\ validity_not_before(a.cert) = validity_not_before(b.cert)
    /\ validity_not_after(a.cert) = validity_not_after(b.cert)

\* C26: among the candidates not yet returned with equal priority key and
\* equal self-issued status the one with the later notBefore is returned
\* first, with equal notBefore the one with the later notAfter, and
\* candidates equal on all four keys are returned in discovery order.
C26_DatesThenDiscovery ==
    IssuerReturned =>
       \A j \in Unreturned :
          SameKeyAndSelfIssued(next_issuer, Top.issuers[j]) =>
             /\ validity_not_before(next_issuer.cert)
                   >= validity_not_before(Top.issuers[j].cert)
             /\ validity_not_before(next_issuer.cert)
                   = validity_not_before(Top.issuers[j].cert)
                => validity_not_after(next_issuer.cert)
                      >= validity_not_after(Top.issuers[j].cert)
             /\ SameDates(next_issuer, Top.issuers[j])
                => DiscoveredBefore(Top.cert, next_issuer.cert,
                                    Top.issuers[j].cert)

\* Of R's five candidates, all with the same key, the two self-issued ones
\* have been returned, the later notBefore first, then the one with the
\* latest notAfter, then the first discovered of two that are equal on all
\* four keys.
C26_Witness ==
    /\ IssuerReturned
    /\ world = 6
    /\ Top.cert = "R"
    /\ Top.cur_issuer = 4
    /\ [i \in 1..5 |-> Top.issuers[i].cert] = <<"A2", "R", "B", "T", "A">>
    /\ \A i \in 1..5 : SameKey(Top.issuers[i], next_issuer)

\* The cursor of the iterator is within its entries and the entries
\* returned so far are pairwise different certificates.
CursorWithinEntries ==
    pc = "issuers" =>
       /\ Top.cur_issuer <= Len(Top.issuers)
       /\ \A i, j \in 1..Top.cur_issuer :
             i # j => Top.issuers[i].cert # Top.issuers[j].cert
       /\ next_issuer.cert # NullCert =>
             next_issuer = Top.issuers[Top.cur_issuer]

\* A call of GetNextIssuer moves the cursor forward by one or leaves it,
\* and leaves the entries before the cursor as they are.
CursorStep ==
    pc = "issuers" =>
       /\ cur_path'[1].cur_issuer \in {Top.cur_issuer, Top.cur_issuer + 1}
       /\ cur_path'[1].cur_issuer = Top.cur_issuer
             <=> next_issuer'.cert = NullCert
       /\ Len(cur_path'[1].issuers) >= Len(Top.issuers)
       /\ SubSeq(cur_path'[1].issuers, 1, Top.cur_issuer)
             = SubSeq(Top.issuers, 1, Top.cur_issuer)

\* C27: for every iterator and every sequence of GetNextIssuer calls the
\* cursor never decreases and never exceeds the number of entries, the
\* entries before the cursor are not reordered, replaced or removed when
\* later candidates are merged and sorted, and no entry is returned twice.
C27_CursorForward == []CursorWithinEntries /\ [][CursorStep]_vars

\* Candidates were merged in after the first was returned, one of them of
\* higher priority than the first: the first has kept its place.
C27_Witness ==
    /\ pc = "issuers"
    /\ Top.did_async_issuer_query
    /\ Top.cur_issuer >= 3
    /\ IssuerLess(Top.issuers[2], Top.issuers[1])

\* The calls of one kind the iterator has made so far, in order.
Calls(op) == SelectSeq(hist.events, LAMBDA e : e.op = op)

Elements(s) == {s[m] : m \in 1..Len(s)}

\* What the sources answer synchronously for c, and what they answer at
\* all.
SyncOffered(c) ==
    UNION {Elements(SyncGetIssuersOf(s, c)) : s \in 1..Len(Sources)}

Offered(c) == Elements(Discovered(c, 1, FALSE))

EntryCerts == {Top.issuers[i].cert : i \in 1..Len(Top.issuers)}

ReturnedCerts == {Top.issuers[i].cert : i \in 1..Top.cur_issuer}

\* The iterator has returned the empty entry.
ReturnedEmpty ==
    pc = "issuers" /\ hist.calls > 0 /\ next_issuer.cert = NullCert

\* C28: in one iterator no two entries have the same raw bytes, whichever
\* sources and whichever kind of query they came from; the trust store is
\* asked once for each entry and never for a dropped candidate; and every
\* candidate the sources offer is kept, and returned by the time the
\* iterator is exhausted, candidates with the same identity and different
\* raw bytes included.
C28_DedupByBytes ==
    pc = "issuers" =>
       /\ \A i, j \in 1..Len(Top.issuers) :
             i # j => der_cert(Top.issuers[i].cert)
                         # der_cert(Top.issuers[j].cert)
       /\ Len(Calls("GetTrust")) = Len(Top.issuers)
       /\ {e.arg : e \in Elements(Calls("GetTrust"))} = EntryCerts
       /\ hist.calls > 0 => SyncOffered(Top.cert) \subseteq EntryCerts
       /\ EntryCerts \subseteq Offered(Top.cert)
       /\ ReturnedEmpty => ReturnedCerts = Offered(Top.cert)

\* T's iterator is exhausted; A was answered by both sources and again by
\* a request, A2 has A's identity and other bytes, and both were returned.
C28_Witness ==
    /\ ReturnedEmpty
    /\ \E s1, s2 \in 1..Len(Sources) :
          /\ s1 # s2
          /\ "A" \in Elements(SyncGetIssuersOf(s1, Top.cert))
          /\ "A" \in Elements(SyncGetIssuersOf(s2, Top.cert))
          /\ "A" \in Elements(Flatten(AsyncGetIssuersOf(s1, Top.cert).batches))
    /\ GetKey("A") = GetKey("A2")
    /\ der_cert("A") # der_cert("A2")
    /\ {"A", "A2"} \subseteq ReturnedCerts
    /\ Len(Calls("GetNext")) > 0

\* The positions in the iterator's record of calls where op was called.
Pos(op) == {m \in 1..Len(hist.events) : hist.events[m].op = op}

\* The sources in registration order.
InRegistrationOrder == [s \in 1..Len(Sources) |-> s]

Args(calls) == [m \in 1..Len(calls) |-> calls[m].arg]

\* Where the first call of GetNextIssuer returned.
FirstReturn == CHOOSE m \in Pos("return") : \A n \in Pos("return") : m <= n

\* The candidates added and not returned before position m of the record.
UnreturnedBefore(m) ==
    Cardinality({n \in Pos("GetTrust") : n < m})
    - Cardinality({n \in Pos("return") :
                      n < m /\ hist.events[n].arg # NullCert})

\* C29: every source is queried synchronously exactly once, during the
\* first call of GetNextIssuer and in registration order; the asynchronous
\* queries are made at most once, on every source in registration order,
\* after the synchronous queries, and at a moment when every candidate
\* added so far has been returned.
C29_QueriesOnce ==
    pc = "issuers" /\ hist.calls > 0 =>
       /\ Args(Calls("SyncGetIssuersOf")) = InRegistrationOrder
       /\ \A m \in Pos("SyncGetIssuersOf") : m < FirstReturn
       /\ Args(Calls("AsyncGetIssuersOf")) \in {<<>>, InRegistrationOrder}
       /\ \A a \in Pos("AsyncGetIssuersOf") :
             /\ \A m \in Pos("SyncGetIssuersOf") : m < a
             /\ UnreturnedBefore(a) = 0

\* The asynchronous queries were made in a later call than the first,
\* after the candidates found synchronously had been returned, and the
\* iterator has been called again since.
C29_Witness ==
    /\ pc = "issuers"
    /\ \E a \in Pos("AsyncGetIssuersOf") :
          /\ FirstReturn < a
          /\ Cardinality({n \in Pos("GetTrust") : n < a}) >= 2
          /\ \E g \in Pos("GetNextIssuer") : a < g

\* The request polled at position m of the record, and its answer.
Polled(m) == hist.events[m].arg

\* The sources whose AsyncGetIssuersOf gave the iterator a request.
Cursors == {s \in 1..Len(Sources) : AsyncGetIssuersOf(s, Top.cert).made}

\* The poll at position m added a candidate: a trust lookup follows it
\* directly.
PollAdded(m) ==
    m < Len(hist.events) /\ hist.events[m + 1].op = "GetTrust"

\* Between positions m and n of the record a candidate was returned.
ReturnedBetween(m, n) ==
    \E r \in Pos("return") :
       m < r /\ r < n /\ hist.events[r].arg # NullCert

\* C30: the requests are polled in the registration order of their
\* sources: a request is polled only after every request of an earlier
\* source has answered with an empty list, no request is polled after its
\* empty answer, and after a poll that added a candidate nothing is polled
\* until a candidate has been returned.
C30_DrainInOrder ==
    pc = "issuers" =>
       \A n \in Pos("GetNext") :
          /\ Polled(n).source \in Cursors
          /\ \A s \in Cursors :
                s < Polled(n).source =>
                   \E m \in Pos("GetNext") :
                      m < n /\ Polled(m) = [source |-> s, answer |-> <<>>]
          /\ \A m \in Pos("GetNext") :
                m < n =>
                   /\ Polled(m).source <= Polled(n).source
                   /\ Polled(m).answer = <<>>
                      => Polled(m).source # Polled(n).source
                   /\ PollAdded(m) => ReturnedBetween(m, n)

\* T's iterator is exhausted after both requests were polled to their
\* empty answers; one poll answered a certificate already seen and was
\* followed at once by the next poll, another added a candidate and ended
\* the polling of that call.
C30_Witness ==
    /\ ReturnedEmpty
    /\ \A s \in 1..Len(Sources) :
          /\ s \in Cursors
          /\ \E m \in Pos("GetNext") :
                Polled(m) = [source |-> s, answer |-> <<>>]
    /\ \E m \in Pos("GetNext") :
          /\ Polled(m).answer # <<>>
          /\ ~PollAdded(m)
          /\ m + 1 \in Pos("GetNext")
    /\ \E m \in Pos("GetNext") :
          PollAdded(m) /\ \E n \in Pos("GetNext") : m < n

\* The positions in the record where GetNextIssuer returned the empty entry.
EmptyReturns == {r \in Pos("return") : hist.events[r].arg = NullCert}

\* When the empty entry has been returned every entry has been returned,
\* the asynchronous queries have been made, every request has answered
\* with an empty list, and nothing the sources offer is missing.
EmptyOnlyWhenDrained ==
    ReturnedEmpty =>
       /\ Top.cur_issuer = Len(Top.issuers)
       /\ Top.did_async_issuer_query
       /\ Pos("AsyncGetIssuersOf") # {}
       /\ Top.cur_async_request = Len(Top.pending_async_requests)
       /\ \A s \in Cursors :
             \E m \in Pos("GetNext") :
                Polled(m) = [source |-> s, answer |-> <<>>]
       /\ ReturnedCerts = Offered(Top.cert)

\* After the empty entry has been returned the iterator only returns the
\* empty entry and calls no source and no trust store.
EmptyForGood ==
    pc = "issuers" =>
       \A r \in EmptyReturns :
          \A m \in 1..Len(hist.events) :
             m > r =>
                \/ hist.events[m].op = "GetNextIssuer"
                \/ m \in EmptyReturns

\* C31: GetNextIssuer returns the empty entry only when every discovered
\* entry has been returned, the asynchronous queries have been made and
\* every request is exhausted; and once it has returned the empty entry,
\* every later call returns the empty entry without querying any source.
C31_EmptyIsFinal == EmptyOnlyWhenDrained /\ EmptyForGood

\* An iterator with requests that has returned candidates and then the
\* empty entry twice.
C31_Witness ==
    /\ ReturnedEmpty
    /\ Cardinality(EmptyReturns) >= 2
    /\ Cursors # {}
    /\ Top.cur_issuer >= 2
    /\ \E m \in Pos("GetNext") : PollAdded(m)

\* The top of the stack has handed out a candidate classified as a trust
\* anchor.
AnchorCandidate ==
    /\ pc = "candidate"
    /\ cur_path # <<>>
    /\ next_issuer.trust \in TrustedAnchorTypes

\* The step taken with an anchor candidate returns true with the stack plus
\* the candidate and the candidate's trust, pushes nothing and clears the
\* pending candidate.
AnchorAccepted ==
    AnchorCandidate =>
       /\ pc' = "ret"
       /\ ret'
       /\ out_certs' = Append(StackCerts, next_issuer.cert)
       /\ out_last_cert_trust' = next_issuer.trust
       /\ UNCHANGED <<cur_path, present_certs, iteration_count>>
       /\ next_issuer' = EmptyIssuerEntry

\* Every entry of the stack is the target, at the bottom, or a certificate
\* of unspecified trust: there is no iterator for an anchor candidate.
StackOfUnspecified ==
    \A i \in 1..Len(cur_path) :
       IF i = 1
       THEN StackCerts[i] = target
       ELSE HasUnspecifiedTrust(GetTrust(StackCerts[i]))

\* C32: a candidate classified as a trust anchor while the stack is not
\* empty is accepted at once as the last certificate of a complete path,
\* the stack plus the candidate; it is never pushed on the stack and its
\* issuers are never looked up, so every stack entry is the target or a
\* certificate classified Unspecified.
C32_AnchorGreedy == []StackOfUnspecified /\ [][AnchorAccepted]_vars

\* A path of three certificates was returned whose last certificate is a
\* trust anchor that the sources know issuers for.
C32_Witness ==
    /\ CompletePathReturned
    /\ out_last_cert_trust \in TrustedAnchorTypes
    /\ Len(out_certs) >= 3
    /\ IssuersOf(out_certs[Len(out_certs)]) # {}
    /\ cur_path # <<>>

\* The loop is looking at a candidate classified Distrusted, the target
\* left by the constructor or a candidate the top of the stack handed out.
DistrustedCandidate ==
    /\ HasCandidate
    /\ next_issuer.trust = "DISTRUSTED"

\* Unless the deadline passes first, the step taken with a distrusted
\* candidate returns true with the stack plus the candidate and Distrusted
\* terminal trust, leaves the stack as it is and clears the pending
\* candidate.
DistrustedReturned ==
    DistrustedCandidate /\ ~deadline_passed' =>
       /\ pc' = "ret"
       /\ ret'
       /\ out_certs' = Append(StackCerts, next_issuer.cert)
       /\ out_last_cert_trust' = "DISTRUSTED"
       /\ UNCHANGED <<cur_path, present_certs, iteration_count>>
       /\ next_issuer' = EmptyIssuerEntry

\* A path with Distrusted terminal trust has been returned and the next
\* call has not been made.
AfterDistrusted ==
    /\ pc \in {"ret", "run"}
    /\ ret
    /\ out_last_cert_trust = "DISTRUSTED"

\* After such a return no candidate is pending and the stack holds the
\* returned path without its last certificate.
DistrustedNotPushed ==
    AfterDistrusted =>
       /\ next_issuer = EmptyIssuerEntry
       /\ StackCerts = SubSeq(out_certs, 1, Len(out_certs) - 1)

\* Until the next call the iterator is left alone, and the next call, when
\* the stack is not empty and no limit stops it, asks the top of the stack
\* for its next candidate.
SameTopAskedNext ==
    AfterDistrusted =>
       /\ UNCHANGED iter_vars
       /\ pc = "run" /\ pc' = "loop" /\ cur_path # <<>>
          /\ ~DeadlineExpired
          /\ ~(max_iteration_count > 0
               /\ iteration_count + 1 > max_iteration_count)
          => LoopFetches'

\* When the loop asks the top of the stack, the candidate it goes on with
\* is the one GetNextIssuer returns for that iterator.
TopAsked ==
    LoopFetches /\ ~deadline_passed' =>
       /\ iteration_count' = iteration_count + 1
       /\ pc' = "candidate"
          => /\ next_issuer' = GetNextIssuer(PathBack(Path)).out
             /\ cur_path' = [cur_path EXCEPT ![Len(cur_path)] =
                               GetNextIssuer(PathBack(Path)).iter]

\* C33: a candidate classified Distrusted is not skipped: GetNextPath
\* returns true with the stack plus the candidate as a complete path of
\* Distrusted terminal trust, does not push the candidate, leaves the stack
\* unchanged and clears the pending candidate, so that the next call asks
\* the same top-of-stack iterator for its next candidate.
C33_DistrustedReturned ==
    /\ []DistrustedNotPushed
    /\ [][DistrustedReturned /\ SameTopAskedNext /\ TopAsked]_vars

\* After a path ending in a distrusted certificate was recorded, the next
\* call has taken a further candidate from the same top of the stack.
C33_Witness ==
    /\ pc = "candidate"
    /\ out_result.paths # <<>>
    /\ LastRecorded.last_cert_trust = "DISTRUSTED"
    /\ Len(LastRecorded.certs) >= 2
    /\ StackCerts = SubSeq(LastRecorded.certs, 1, Len(LastRecorded.certs) - 1)
    /\ hist.calls >= 2

\* GetNextPath has returned false for the iteration limit: the path handed
\* out is the stack and carries kIterationLimitExceeded.
IterationLimitReturn ==
    /\ pc \in {"ret", "done"}
    /\ ~ret
    /\ out_certs = StackCerts
    /\ ContainsError(out_errors, "kIterationLimitExceeded")

\* The counter counts the requests made to top-of-stack iterators, plus one
\* once the build has stopped for the iteration limit; with a cap the
\* requests do not outnumber it, and with cap 0 nothing is stopped for it.
CounterCountsRequests ==
    /\ iteration_count \in {hist.requests, hist.requests + 1}
    /\ iteration_count = hist.requests + 1 <=>
          max_iteration_count > 0 /\ iteration_count = max_iteration_count + 1
    /\ iteration_count = hist.requests + 1 => IterationLimitReturn
    /\ max_iteration_count > 0 =>
          /\ hist.requests <= max_iteration_count
          /\ iteration_count <= max_iteration_count + 1
    /\ max_iteration_count = 0 =>
          /\ ~ContainsError(out_errors, "kIterationLimitExceeded")
          /\ ~out_result.exceeded_iteration_limit
          /\ ~AnyPathContainsError(out_result, "kIterationLimitExceeded")

\* A request to the top of the stack comes with exactly one increment of the
\* counter, and the only other increment is the one that exceeds the cap and
\* makes GetNextPath return false with the stack, which it leaves alone.
CountedOncePerRequest ==
    /\ hist'.requests # hist.requests =>
          /\ hist'.requests = hist.requests + 1
          /\ iteration_count' = iteration_count + 1
          /\ max_iteration_count > 0 => iteration_count' <= max_iteration_count
    /\ iteration_count' # iteration_count =>
          /\ iteration_count' = iteration_count + 1
          /\ \/ hist'.requests = hist.requests + 1
             \/ /\ max_iteration_count > 0
                /\ iteration_count' = max_iteration_count + 1
                /\ pc' = "ret"
                /\ ~ret'
                /\ out_certs' = StackCerts
                /\ ContainsError(out_errors', "kIterationLimitExceeded")
                /\ UNCHANGED <<cur_path, present_certs, next_issuer>>

\* C34: the iteration counter is incremented exactly once with each request
\* to a top-of-stack iterator for its next candidate; with cap N > 0 the
\* request is made only while the incremented counter is at most N, so at
\* most N requests are made in one build and the counter never exceeds
\* N + 1, and when it reaches N + 1 GetNextPath returns false with the stack
\* as the path and kIterationLimitExceeded; with cap 0 the counter never
\* stops the search.
C34_IterationCounter ==
    []CounterCountsRequests /\ [][CountedOncePerRequest]_vars

\* With cap 2 the build made two requests and was stopped at the third
\* increment, with a path of two certificates.
C34_Witness ==
    /\ pc = "ret"
    /\ max_iteration_count = MaxIterationLimit
    /\ iteration_count = MaxIterationLimit + 1
    /\ hist.requests = MaxIterationLimit
    /\ IterationLimitReturn
    /\ Len(out_certs) >= 2

\* The step is a return of GetNextPath.
Returns == pc \in {"loop", "candidate"} /\ pc' = "ret"

\* What each kind of return does to the stack.
ReturnEffect ==
    Returns =>
       /\ ContainsError(out_errors', "kDeadlineExceeded") =>
             ~ret' /\ UNCHANGED <<cur_path, present_certs>>
       /\ ContainsError(out_errors', "kIterationLimitExceeded") =>
             ~ret' /\ UNCHANGED <<cur_path, present_certs>>
       /\ ret' /\ ~HasUnspecifiedTrust(out_last_cert_trust') =>
             UNCHANGED <<cur_path, present_certs>>
       /\ ContainsError(out_errors', "kDepthLimitExceeded") =>
             ret' /\ cur_path # <<>> /\ PopsOneLevel
       /\ CertError("kNoIssuersFound", Len(out_certs')) \in out_errors' =>
             ret' /\ cur_path # <<>> /\ PopsOneLevel

\* Whatever the depth of the stack, an iteration that finds the deadline
\* passed returns false for the deadline and pops nothing.
DeadlineFirst ==
    pc = "loop" /\ (DeadlineExpired \/ deadline_passed') =>
       /\ pc' = "ret"
       /\ ~ret'
       /\ ContainsError(out_errors', "kDeadlineExceeded")
       /\ ~ContainsError(out_errors', "kDepthLimitExceeded")
       /\ UNCHANGED iter_vars

\* C35: a deadline return and an iteration-limit return leave the path
\* stack unchanged; a complete-path return leaves it unchanged; a
\* depth-limit return and a kNoIssuersFound return each pop exactly one
\* level; and the deadline check comes before the depth check, so a call
\* made after the deadline never pops.
C35_ReturnEffects == [][ReturnEffect /\ DeadlineFirst]_vars

\* A call made after the deadline had stopped the search, with the stack at
\* the depth cap, has returned for the deadline and left the stack at the
\* cap.
C35_Witness ==
    /\ pc = "ret"
    /\ ~ret
    /\ deadline_passed
    /\ max_iteration_count = 0
    /\ hist.calls_after_false >= 1
    /\ cur_path # <<>>
    /\ DepthLimitReached
    /\ ContainsError(out_errors, "kDeadlineExceeded")
    /\ hist.true_returns >= 1

\* C36: with a depth cap D > 0 the path stack never holds more than D
\* entries, every path GetNextPath hands out, complete or partial, and
\* every recorded path has at most D certificates, and max_depth_seen never
\* exceeds D.
C36_DepthBound ==
    max_path_building_depth > 0 =>
       /\ Len(cur_path) <= max_path_building_depth
       /\ Len(out_certs) <= max_path_building_depth
       /\ \A rp \in RecordedPaths : Len(rp.certs) <= max_path_building_depth
       /\ out_result.max_depth_seen <= max_path_building_depth

\* With depth cap 2 and a chain of four certificates to the anchor, Run has
\* returned: a path was cut at the cap, and the deepest path recorded has
\* two certificates.
C36_Witness ==
    /\ pc = "done"
    /\ world = 1 /\ target = "T"
    /\ trust["R"] \in TrustedAnchorTypes
    /\ \A c \in {"T", "A", "B"} : HasUnspecifiedTrust(trust[c])
    /\ max_path_building_depth = MaxDepthLimit
    /\ out_result.max_depth_seen = MaxDepthLimit
    /\ AnyPathContainsError(out_result, "kDepthLimitExceeded")
    /\ ~out_result.exceeded_deadline
    /\ ~out_result.exceeded_iteration_limit

\* The errors GetNextPath attaches to the paths it cuts short.
SearchErrors ==
    {"kNoIssuersFound", "kDepthLimitExceeded", "kIterationLimitExceeded",
     "kDeadlineExceeded"}

\* GetNextPath has returned a path that Run records without verifying it:
\* one with Unspecified terminal trust, or one returned together with false.
UnverifiedPathReturned ==
    /\ pc = "ret"
    /\ out_certs # <<>>
    /\ ret => HasUnspecifiedTrust(out_last_cert_trust)

\* C37: the four search errors being of high severity, kInternalError is
\* never attached to a recorded path: every path returned with Unspecified
\* terminal trust or together with false already carries one of the four
\* search errors.
C37_NoInternalError ==
    /\ \A e \in SearchErrors : IsHighSeverity(OtherError(e))
    /\ ~AnyPathContainsError(out_result, "kInternalError")
    /\ UnverifiedPathReturned =>
          /\ \E e \in SearchErrors : ContainsError(out_errors, e)
          /\ WithFallbackError(out_errors) = out_errors

\* Run has returned after recording a partial path that ran out of issuers
\* and the path at which the iteration limit stopped it.
C37_Witness ==
    /\ pc = "done"
    /\ AnyPathContainsError(out_result, "kNoIssuersFound")
    /\ AnyPathContainsError(out_result, "kIterationLimitExceeded")
    /\ \A rp \in RecordedPaths : HasUnspecifiedTrust(rp.last_cert_trust)

\* The chain starts with the target, each later certificate is among those
\* a source answers, synchronously or through a request, as issuers of the
\* certificate before it, and every certificate before the last is the
\* target or has unspecified trust.
WellFormedChain(certs) ==
    certs # <<>> =>
       /\ certs[1] = target
       /\ \A i \in 2..Len(certs) : certs[i] \in IssuersOf(certs[i - 1])
       /\ \A i \in 1..(Len(certs) - 1) :
             certs[i] = target \/ HasUnspecifiedTrust(GetTrust(certs[i]))

\* C38: every non-empty path GetNextPath hands out starts with the target
\* certificate, each later certificate in it was supplied by an issuer
\* source, sync or async, as a candidate issuer of the certificate just
\* before it, and every certificate except possibly the last is the target
\* or classified Unspecified; the recorded paths are such paths.
C38_PathsFollowIssuers ==
    /\ pc = "ret" => WellFormedChain(out_certs)
    /\ \A rp \in RecordedPaths : WellFormedChain(rp.certs)

\* A complete path of three certificates whose second certificate only a
\* request supplied.
C38_Witness ==
    /\ CompletePathReturned
    /\ Len(out_certs) = 3
    /\ out_certs[2] \notin SyncOffered(out_certs[1])
    /\ out_certs[3] \in SyncOffered(out_certs[2])
    /\ out_certs[3] # target

\* The target is classified Distrusted and no deadline has passed.
DistrustedTarget == trust[target] = "DISTRUSTED" /\ ~deadline_passed

PartialPathCalls ==
    <<"CheckPathAfterVerification", "IsValid", "AddResultPath">>

\* For every path returned with true Run has asked the delegate once; a
\* partial path was not given to the validator first.
DelegateForEveryTrueReturn ==
    PathProcessed =>
       /\ Count(hist.events, "CheckPathAfterVerification") = 1
       /\ HasUnspecifiedTrust(out_last_cert_trust) =>
             /\ hist.events = PartialPathCalls
             /\ LastRecorded.certs = out_certs
             /\ \/ ContainsError(out_errors, "kNoIssuersFound")
                \/ ContainsError(out_errors, "kDepthLimitExceeded")

\* Run has returned after GetNextPath returned false.
ReturnedAfterFalse == pc = "done" /\ ~ret

\* For the path returned together with false Run has asked neither the
\* validator nor the delegate, whether or not it recorded the path.
NoDelegateForFalseReturn ==
    ReturnedAfterFalse =>
       /\ Count(hist.events, "CheckPathAfterVerification") = 0
       /\ Count(hist.events, "VerifyCertificateChain") = 0
       /\ hist.events = IF out_certs # <<>> THEN <<"AddResultPath">> ELSE <<>>
       /\ out_certs # <<>> =>
             /\ LastRecorded.certs = out_certs
             /\ LastRecorded.errors = out_errors

\* C40: the delegate's CheckPathAfterVerification is invoked exactly once
\* for every path GetNextPath returns with true, partial paths of
\* Unspecified terminal trust (kNoIssuersFound, kDepthLimitExceeded) that
\* are not passed to the chain validator included, and never for the last
\* path, returned together with false (exhaustion, iteration limit,
\* deadline), even when that path is recorded.
C40_DelegateForTrueReturns ==
    DelegateForEveryTrueReturn /\ NoDelegateForFalseReturn

\* Run has returned after recording a partial path the delegate added an
\* error to and, last, the path GetNextPath returned together with false.
C40_Witness ==
    /\ ReturnedAfterFalse
    /\ out_certs # <<>>
    /\ Len(out_result.paths) >= 2
    /\ \E rp \in RecordedPaths :
          /\ HasUnspecifiedTrust(rp.last_cert_trust)
          /\ ContainsError(rp.errors, "kDelegateError")
          /\ \/ ContainsError(rp.errors, "kNoIssuersFound")
             \/ ContainsError(rp.errors, "kDepthLimitExceeded")
    /\ ~ContainsError(LastRecorded.errors, "kDelegateError")

====
